---- MODULE Spec2Model ----
(***************************************************************************)
(* The game session engine of the horse race game (src/src/App.tsx): the   *)
(* React state of the App component, its refs and its pending timers, and  *)
(* one action per handler or timer callback.                               *)
(*                                                                         *)
(* A handler is an operator from the state its render closed over to the   *)
(* state React installs after it; the effects that run after the render    *)
(* (Settle) are part of every action.  Money is counted in twelfths of a   *)
(* dollar (Unit), which makes the payout division pot / totalWinningCards  *)
(* exact for 1..4 winning cards.  Presentation state (dice faces, confetti,*)
(* countdown seconds, popups, tabs) is left out.                           *)
(***************************************************************************)
EXTENDS Integers, Sequences, FiniteSets, TLC

\* ------------------------------------------------------------------ bounds
\* rolls resolved when the dice are free
MaxRolls == 5
\* cards the human lists since the initial state
MaxListings == 1
\* sessions started or reset since the initial state
MaxSessions == 2
\* cards the human lists in the market of SpecMarket
MaxMarketListings == 3

\* ------------------------------------------------------- program constants
Unit == 12
LISTING_PRICE == 30
MAX_TRADES_PER_PLAYER == 2
NumPlayers == 6
HalfStartingBalance == 350
FullStartingBalance == 700
HalfBailout == 100
FullBailout == 200
HalfRaces == 4
FullRaces == 8

laneNumbers == 2..12
suits == <<"S", "H", "D", "C">>

pegDistribution(lane) ==
    CASE lane = 2 -> 2 [] lane = 3 -> 3 [] lane = 4 -> 4 [] lane = 5 -> 5
      [] lane = 6 -> 6 [] lane = 7 -> 7 [] lane = 8 -> 6 [] lane = 9 -> 5
      [] lane = 10 -> 4 [] lane = 11 -> 3 [] lane = 12 -> 2

\* scratchPenaltyByStep[step] ?? 0, in dollars
scratchPenaltyByStep(step) ==
    CASE step = 1 -> 5 [] step = 2 -> 10 [] step = 3 -> 15 [] step = 4 -> 20
      [] OTHER -> 0

\* a day of 8 races in either mode
totalRacesFull(mode) == IF mode = "none" THEN 0 ELSE FullRaces

totalRacesOf(mode) ==
    IF mode = "none" THEN 0 ELSE IF mode = "half" THEN HalfRaces ELSE FullRaces

\* ------------------------------------------------------------ sequences
RECURSIVE SumSeq(_)
SumSeq(q) == IF q = << >> THEN 0 ELSE Head(q) + SumSeq(Tail(q))

Range(q) == {q[i] : i \in 1..Len(q)}

\* Array.prototype.splice(index, 1) on a copy, index counted from 1
RemoveAt(q, i) == SubSeq(q, 1, i - 1) \o SubSeq(q, i + 1, Len(q))

\* ------------------------------------------------------------------ cards
createDeck ==
    [k \in 1..44 |-> [value |-> 2 + ((k - 1) \div 4), suit |-> suits[((k - 1) % 4) + 1]]]

AllCards == Range(createDeck)

\* a deal that starts one round late: the first playerCount cards stay in the
\* deck
dealHandsLate(deck, playerCount, i) ==
    LET idx == SelectSeq([k \in 1..Len(deck) |-> k],
                         LAMBDA k : k > playerCount /\ (k - 1) % playerCount = i)
    IN  [j \in 1..Len(idx) |-> deck[idx[j]]]

\* a deal of full rounds only: the cards left after the last full round stay
\* in the deck
dealHandsShort(deck, playerCount, i) ==
    LET full == (Len(deck) \div playerCount) * playerCount
        idx == SelectSeq([k \in 1..Len(deck) |-> k],
                         LAMBDA k : k <= full /\ (k - 1) % playerCount = i)
    IN  [j \in 1..Len(idx) |-> deck[idx[j]]]

\* dealHands(deck, playerCount)[i], i counted from 0: deck positions i, i+n, ...
dealHands(deck, playerCount, i) ==
    LET idx == SelectSeq([k \in 1..Len(deck) |-> k], LAMBDA k : (k - 1) % playerCount = i)
    IN  [j \in 1..Len(idx) |-> deck[idx[j]]]

CountValue(cards, v) == Len(SelectSeq(cards, LAMBDA c : c.value = v))
\* a scratch that leaves the scratched horse's cards in the hands
KeepCards(cards, v) == cards

\* a forfeit of one card of the value: the first one in the hand
WithoutFirstOfValue(cards, v) ==
    LET at == {i \in 1..Len(cards) : cards[i].value = v}
    IN  IF at = {} THEN cards
        ELSE RemoveAt(cards, CHOOSE i \in at : \A j \in at : i <= j)

WithoutValue(cards, v) == SelectSeq(cards, LAMBDA c : c.value # v)

\* ------------------------------------------------------------------ state
VARIABLES
    \* useState
    players, gameStarted, gameMode, currentRace, horses, phase,
    currentPlayerIndex, raceSummary, finalStandings, showFinalSummary,
    bailoutUsedByPlayer, tradeListings, tradeBuyCounts, tradeSellCounts,
    showTradeModal, playerStats, isRolling, pot, scratchHistory, winner,
    \* useRef: a timer ref is << >> (null) or <<closure>> (pending)
    rollTimeoutRef, summaryTimeoutRef, summaryDelayRef, aiRollTimeoutRef,
    tradeTimeoutRef, tradeEndsAtRef, tradeAiTimeoutRef, tradeDelayRef,
    tradeAiDelayRef, finalStatsRecordedRef, lastRollByUserRef, tradeStateRef,
    listingCounterRef,
    \* history: session generation, rolls resolved, cards the human listed,
    \* bailout credits per player in this session, cards forfeited by
    \* scratches and cards dropped by eliminations in this race, the last
    \* operation
    session, rolls, humanLists, bailoutCredits, forfeited, discarded, last,
    \* the totals handleRoll will draw, in order (left), or any total (free)
    dice

vars ==
    <<players, gameStarted, gameMode, currentRace, horses, phase,
      currentPlayerIndex, raceSummary, finalStandings, showFinalSummary,
      bailoutUsedByPlayer, tradeListings, tradeBuyCounts, tradeSellCounts,
      showTradeModal, playerStats, isRolling, pot, scratchHistory, winner,
      rollTimeoutRef, summaryTimeoutRef, summaryDelayRef, aiRollTimeoutRef,
      tradeTimeoutRef, tradeEndsAtRef, tradeAiTimeoutRef, tradeDelayRef,
      tradeAiDelayRef, finalStatsRecordedRef, lastRollByUserRef, tradeStateRef,
      listingCounterRef, session, rolls, humanLists, bailoutCredits, forfeited,
      discarded, last, dice>>

\* the state as one record: what a render closes over
Cur ==
    [players |-> players, gameStarted |-> gameStarted, gameMode |-> gameMode,
     currentRace |-> currentRace, horses |-> horses, phase |-> phase,
     currentPlayerIndex |-> currentPlayerIndex, raceSummary |-> raceSummary,
     finalStandings |-> finalStandings, showFinalSummary |-> showFinalSummary,
     bailoutUsedByPlayer |-> bailoutUsedByPlayer, tradeListings |-> tradeListings,
     tradeBuyCounts |-> tradeBuyCounts, tradeSellCounts |-> tradeSellCounts,
     showTradeModal |-> showTradeModal, playerStats |-> playerStats,
     isRolling |-> isRolling, pot |-> pot, scratchHistory |-> scratchHistory,
     winner |-> winner, rollTimeoutRef |-> rollTimeoutRef,
     summaryTimeoutRef |-> summaryTimeoutRef, summaryDelayRef |-> summaryDelayRef,
     aiRollTimeoutRef |-> aiRollTimeoutRef, tradeTimeoutRef |-> tradeTimeoutRef,
     tradeEndsAtRef |-> tradeEndsAtRef, tradeAiTimeoutRef |-> tradeAiTimeoutRef,
     tradeDelayRef |-> tradeDelayRef, tradeAiDelayRef |-> tradeAiDelayRef,
     finalStatsRecordedRef |-> finalStatsRecordedRef,
     lastRollByUserRef |-> lastRollByUserRef, tradeStateRef |-> tradeStateRef,
     listingCounterRef |-> listingCounterRef, session |-> session, rolls |-> rolls,
     humanLists |-> humanLists,
     bailoutCredits |-> bailoutCredits, forfeited |-> forfeited,
     discarded |-> discarded, last |-> last]

Install(s) ==
    /\ players' = s.players /\ gameStarted' = s.gameStarted
    /\ gameMode' = s.gameMode /\ currentRace' = s.currentRace
    /\ horses' = s.horses /\ phase' = s.phase
    /\ currentPlayerIndex' = s.currentPlayerIndex
    /\ raceSummary' = s.raceSummary /\ finalStandings' = s.finalStandings
    /\ showFinalSummary' = s.showFinalSummary
    /\ bailoutUsedByPlayer' = s.bailoutUsedByPlayer
    /\ tradeListings' = s.tradeListings /\ tradeBuyCounts' = s.tradeBuyCounts
    /\ tradeSellCounts' = s.tradeSellCounts /\ showTradeModal' = s.showTradeModal
    /\ playerStats' = s.playerStats /\ isRolling' = s.isRolling /\ pot' = s.pot
    /\ scratchHistory' = s.scratchHistory /\ winner' = s.winner
    /\ rollTimeoutRef' = s.rollTimeoutRef
    /\ summaryTimeoutRef' = s.summaryTimeoutRef
    /\ summaryDelayRef' = s.summaryDelayRef
    /\ aiRollTimeoutRef' = s.aiRollTimeoutRef
    /\ tradeTimeoutRef' = s.tradeTimeoutRef /\ tradeEndsAtRef' = s.tradeEndsAtRef
    /\ tradeAiTimeoutRef' = s.tradeAiTimeoutRef
    /\ tradeDelayRef' = s.tradeDelayRef /\ tradeAiDelayRef' = s.tradeAiDelayRef
    /\ finalStatsRecordedRef' = s.finalStatsRecordedRef
    /\ lastRollByUserRef' = s.lastRollByUserRef
    /\ tradeStateRef' = s.tradeStateRef
    /\ listingCounterRef' = s.listingCounterRef /\ session' = s.session
    /\ rolls' = s.rolls /\ humanLists' = s.humanLists
    /\ bailoutCredits' = s.bailoutCredits
    /\ forfeited' = s.forfeited /\ discarded' = s.discarded /\ last' = s.last

PlayerIds == 1..NumPlayers
NoCounts == [id \in PlayerIds |-> 0]
EMPTY_STATS ==
    [half |-> [wins |-> 0, bestBalance |-> 0], full |-> [wins |-> 0, bestBalance |-> 0]]
EmptyTradeState ==
    [players |-> << >>, listings |-> << >>, buyCounts |-> NoCounts,
     sellCounts |-> NoCounts]
Op(name, actor, arg, gen) == [op |-> name, actor |-> actor, arg |-> arg, gen |-> gen]

initialiseHorses ==
    [k \in 1..11 |->
        [number |-> k + 1, position |-> 0, scratched |-> FALSE, scratchStep |-> 0]]

\* horses.find((h) => h.number === horseNumber), as an index (0: not found)
HorseIndex(hs, n) == IF n - 1 \in 1..Len(hs) THEN n - 1 ELSE 0

\* cards in players' hands and in open listings
HandCards(ps) == UNION {Range(ps[i].cards) : i \in 1..Len(ps)}
ListedCards(ls) == {ls[i].card : i \in 1..Len(ls)}

\* --------------------------------------------------- bailout / elimination
BailoutAmount(mode) == IF mode = "full" THEN FullBailout ELSE HalfBailout

\* the ids applyBailoutIfNeeded credits: usedIds
BailoutIds(playersSnapshot, used) ==
    {playersSnapshot[i].id : i \in
        {j \in 1..Len(playersSnapshot) :
            /\ ~playersSnapshot[j].eliminated
            /\ playersSnapshot[j].balance <= 0
            /\ playersSnapshot[j].id \notin used}}

\* a check that lets a player at exactly 0 stay in without a bailout
BailoutBelowZero(player, amount, used) ==
    IF player.eliminated
    THEN [player EXCEPT !.balance = 0, !.cards = << >>]
    ELSE LET credited == IF player.balance < 0 /\ player.id \notin used
                         THEN player.balance + amount * Unit
                         ELSE player.balance
             out == credited < 0
         IN  [player EXCEPT !.balance = IF out THEN 0 ELSE credited,
                            !.cards = IF out THEN << >> ELSE @,
                            !.eliminated = out]

\* one player of applyBailoutIfNeeded's map; `used` is the
\* bailoutUsedByPlayer the calling render closed over
BailoutPlayer(player, amount, used) ==
    IF player.eliminated
    THEN [player EXCEPT !.balance = 0, !.cards = << >>]
    ELSE LET credited == IF player.balance <= 0 /\ player.id \notin used
                         THEN player.balance + amount * Unit
                         ELSE player.balance
             out == credited <= 0
         IN  [player EXCEPT !.balance = IF out THEN 0 ELSE credited,
                            !.cards = IF out THEN << >> ELSE @,
                            !.eliminated = out]

applyBailoutIfNeeded(playersSnapshot, mode, used) ==
    IF mode = "none"
    THEN playersSnapshot
    ELSE [i \in 1..Len(playersSnapshot) |->
            BailoutPlayer(playersSnapshot[i], BailoutAmount(mode), used)]

\* eliminatedIds: the players this call eliminates
EliminatedIds(before, after) ==
    {before[i].id : i \in {j \in 1..Len(before) :
                              ~before[j].eliminated /\ after[j].eliminated}}

FilterListings(ls, ids) == SelectSeq(ls, LAMBDA l : l.sellerId \notin ids)

\* applyBailoutIfNeeded with setBailoutUsedByPlayer, a functional update on
\* the latest state s; `mode` and `used` are the gameMode and the
\* bailoutUsedByPlayer of the render whose closure makes the call
BailoutOnPlayers(s, updatedPlayers, mode, used) ==
    LET after == applyBailoutIfNeeded(updatedPlayers, mode, used)
        usedIds == IF mode = "none" THEN {} ELSE BailoutIds(updatedPlayers, used)
    IN  [s EXCEPT
            !.players = after,
            !.bailoutUsedByPlayer = @ \cup usedIds,
            !.bailoutCredits =
                [id \in PlayerIds |-> IF id \in usedIds THEN @[id] + 1 ELSE @[id]],
            !.discarded = @ \cup (HandCards(updatedPlayers) \ HandCards(after))]

\* ... and with setTradeListings(prev => prev.filter(...)), which stands
\* unless the caller sets the listings to a value afterwards
WithBailout(s, updatedPlayers, mode, used) ==
    LET t == BailoutOnPlayers(s, updatedPlayers, mode, used)
        kept == FilterListings(s.tradeListings,
                               EliminatedIds(updatedPlayers, t.players))
    IN  [t EXCEPT
            !.tradeListings = kept,
            !.discarded = @ \cup (ListedCards(s.tradeListings) \ ListedCards(kept))]

\* ------------------------------------------------------------------- turns
getNextActiveIndex(ps, startIndex) ==
    IF Len(ps) = 0
    THEN startIndex
    ELSE LET offs == {o \in 1..Len(ps) :
                         ~ps[((startIndex + o) % Len(ps)) + 1].eliminated}
         IN  IF offs = {}
             THEN startIndex
             ELSE (startIndex + CHOOSE o \in offs : \A p \in offs : o <= p) % Len(ps)

\* advanceTurn: getNextActiveIndex reads the players of the render (ps)
advanceTurn(s, ps) ==
    IF Len(ps) = 0
    THEN s
    ELSE [s EXCEPT !.currentPlayerIndex = getNextActiveIndex(ps, @)]

\* ---------------------------------------------------- values of a render
userEliminated(s) ==
    IF Len(s.players) = 0 THEN FALSE
    ELSE LET mine == {i \in 1..Len(s.players) : s.players[i].id = 1}
         IN  IF mine = {} THEN s.players[1].eliminated
             ELSE s.players[CHOOSE i \in mine : TRUE].eliminated
isUserTurn(s) == s.currentPlayerIndex = 0 /\ ~userEliminated(s)
isCurrentPlayerActive(s) ==
    /\ s.currentPlayerIndex + 1 \in 1..Len(s.players)
    /\ ~s.players[s.currentPlayerIndex + 1].eliminated
canRoll(s) == s.phase \in {"scratch", "race"} /\ isUserTurn(s) /\ ~s.isRolling
\* an auto-roll condition that does not look at the roll in flight
canAutoRollWhileRolling(s) ==
    /\ s.phase \in {"scratch", "race"}
    /\ Len(s.players) > 0
    /\ ~isUserTurn(s)
    /\ isCurrentPlayerActive(s)

canAutoRoll(s) ==
    /\ s.phase \in {"scratch", "race"}
    /\ Len(s.players) > 0
    /\ ~s.isRolling
    /\ ~isUserTurn(s)
    /\ isCurrentPlayerActive(s)

\* ----------------------------------------------------------------- effects
\* a dependency list without isRolling: the end of a roll lock does not run
\* the auto-roll effect again
AutoRollDepsNoLock(r) == <<r.phase, Len(r.players), isUserTurn(r)>>

AutoRollDeps(r) == <<r.phase, Len(r.players), r.isRolling, isUserTurn(r)>>
SummaryDeps(r) == <<r.raceSummary, r.currentRace, totalRacesOf(r.gameMode)>>

\* a render that leaves the turn with an eliminated player
KeepCurrentPlayer(r) == r.currentPlayerIndex

\* useEffect (skip eliminated current player)
SkipEliminatedEffect(r) ==
    IF /\ Len(r.players) > 0
       /\ r.currentPlayerIndex + 1 \in 1..Len(r.players)
       /\ r.players[r.currentPlayerIndex + 1].eliminated
    THEN getNextActiveIndex(r.players, r.currentPlayerIndex)
    ELSE r.currentPlayerIndex

\* useEffect (AI auto-roll): when a dependency changed, the cleanup clears the
\* pending timer and the body schedules a new one if canAutoRoll
AutoRollEffect(prev, r) ==
    IF AutoRollDeps(prev) = AutoRollDeps(r)
    THEN r.aiRollTimeoutRef
    ELSE IF canAutoRoll(r) THEN <<[gen |-> r.session]>> ELSE << >>

\* useEffect (race summary auto-advance): the callback closes over
\* currentRace < totalRaces of this render
SummaryEffect(prev, r) ==
    IF SummaryDeps(prev) = SummaryDeps(r) \/ r.raceSummary = << >>
    THEN r.summaryTimeoutRef
    ELSE <<[gen |-> r.session,
            advance |-> r.currentRace < totalRacesOf(r.gameMode)]>>

\* a render that leaves the snapshot of the market as it was
TradeStateKept(r) == r.tradeStateRef

\* useEffect (tradeStateRef sync)
TradeStateEffect(r) ==
    [players |-> r.players, listings |-> r.tradeListings,
     buyCounts |-> r.tradeBuyCounts, sellCounts |-> r.tradeSellCounts]

\* the effects of one render r that follows the render prev
EffectsPass(prev, r) ==
    [r EXCEPT
        !.currentPlayerIndex = SkipEliminatedEffect(r),
        !.tradeStateRef = TradeStateEffect(r),
        !.aiRollTimeoutRef = AutoRollEffect(prev, r),
        !.lastRollByUserRef =
            IF AutoRollDeps(prev) # AutoRollDeps(r) /\ canAutoRoll(r) THEN FALSE ELSE @,
        !.summaryTimeoutRef = SummaryEffect(prev, r)]

\* render after a handler and run the effects until no effect sets state
Settle(prev, s) ==
    LET r1 == EffectsPass(prev, s)
    IN  IF r1.currentPlayerIndex = s.currentPlayerIndex
        THEN r1
        ELSE EffectsPass(s, r1)

\* -------------------------------------------------------- session lifecycle
StartingBalance(mode) ==
    IF mode = "half" THEN HalfStartingBalance ELSE FullStartingBalance

\* startGame(mode) with shuffleDeck's outcome; rollTimeoutRef and
\* summaryTimeoutRef are not among the timers it clears
startGame(s, mode, shuffledDeck) ==
    [s EXCEPT
        !.players =
            [i \in 1..NumPlayers |->
                [id |-> i, balance |-> StartingBalance(mode) * Unit,
                 cards |-> dealHands(shuffledDeck, NumPlayers, i - 1),
                 eliminated |-> FALSE]],
        !.horses = initialiseHorses,
        !.gameMode = mode,
        !.currentRace = 1,
        !.gameStarted = TRUE,
        !.phase = "scratch",
        !.currentPlayerIndex = 0,
        !.isRolling = FALSE,
        !.raceSummary = << >>,
        !.finalStandings = << >>,
        !.showFinalSummary = FALSE,
        !.bailoutUsedByPlayer = {},
        !.tradeListings = << >>,
        !.tradeBuyCounts = NoCounts,
        !.tradeSellCounts = NoCounts,
        !.showTradeModal = FALSE,
        !.finalStatsRecordedRef = FALSE,
        !.lastRollByUserRef = FALSE,
        !.listingCounterRef = 0,
        !.summaryDelayRef = << >>,
        !.aiRollTimeoutRef = << >>,
        !.tradeTimeoutRef = << >>,
        !.tradeAiTimeoutRef = << >>,
        !.tradeDelayRef = << >>,
        !.tradeAiDelayRef = << >>,
        !.tradeEndsAtRef = FALSE,
        !.pot = 0,
        !.scratchHistory = << >>,
        !.winner = 0,
        !.session = @ + 1,
        !.bailoutCredits = NoCounts,
        !.forfeited = {},
        !.discarded = {},
        !.last = Op("startGame", 0, 0, s.session + 1)]

resetGame(s) ==
    [s EXCEPT
        !.gameStarted = FALSE,
        !.players = << >>,
        !.gameMode = "none",
        !.currentRace = 1,
        !.horses = << >>,
        !.phase = "none",
        !.currentPlayerIndex = 0,
        !.isRolling = FALSE,
        !.raceSummary = << >>,
        !.finalStandings = << >>,
        !.showFinalSummary = FALSE,
        !.bailoutUsedByPlayer = {},
        !.tradeListings = << >>,
        !.tradeBuyCounts = NoCounts,
        !.tradeSellCounts = NoCounts,
        !.showTradeModal = FALSE,
        !.finalStatsRecordedRef = FALSE,
        !.lastRollByUserRef = FALSE,
        !.listingCounterRef = 0,
        !.rollTimeoutRef = << >>,
        !.summaryTimeoutRef = << >>,
        !.summaryDelayRef = << >>,
        !.aiRollTimeoutRef = << >>,
        !.tradeTimeoutRef = << >>,
        !.tradeAiTimeoutRef = << >>,
        !.tradeDelayRef = << >>,
        !.tradeAiDelayRef = << >>,
        !.tradeEndsAtRef = FALSE,
        !.pot = 0,
        !.scratchHistory = << >>,
        !.winner = 0,
        !.session = @ + 1,
        !.bailoutCredits = NoCounts,
        !.forfeited = {},
        !.discarded = {},
        !.last = Op("resetGame", 0, 0, s.session + 1)]

\* ------------------------------------------------------------- standings
\* the comparator of buildFinalStandings' sort is negative for (a, b)
SortsBefore(a, b) ==
    IF a.eliminated # b.eliminated THEN ~a.eliminated ELSE a.balance > b.balance

\* Array.prototype.sort is stable: insert behind every element p does not
\* strictly precede
InsertSorted(sorted, p) ==
    LET firstAfter == {i \in 1..Len(sorted) : SortsBefore(p, sorted[i])}
        at == IF firstAfter = {} THEN Len(sorted) + 1
              ELSE CHOOSE i \in firstAfter : \A j \in firstAfter : i <= j
    IN  SubSeq(sorted, 1, at - 1) \o <<p>> \o SubSeq(sorted, at, Len(sorted))

RECURSIVE SortPlayers(_)
SortPlayers(ps) ==
    IF ps = << >> THEN << >>
    ELSE InsertSorted(SortPlayers(SubSeq(ps, 1, Len(ps) - 1)), ps[Len(ps)])

\* Math.round(balance * 100) of a balance counted in 1/Unit dollars
RoundCents(balance) == (2 * 100 * balance + Unit) \div (2 * Unit)

\* a ranking by position alone: ties are not recognised
RankByPosition(sorted) ==
    [k \in 1..Len(sorted) |->
        [playerId |-> sorted[k].id, balance |-> sorted[k].balance,
         eliminated |-> sorted[k].eliminated, rank |-> k]]

RECURSIVE RankSorted(_)
RankSorted(sorted) ==
    IF sorted = << >> THEN << >>
    ELSE LET acc == RankSorted(SubSeq(sorted, 1, Len(sorted) - 1))
             player == sorted[Len(sorted)]
             isTie == /\ acc # << >>
                      /\ RoundCents(acc[Len(acc)].balance) = RoundCents(player.balance)
                      /\ acc[Len(acc)].eliminated = player.eliminated
             rank == IF isTie THEN acc[Len(acc)].rank ELSE Len(sorted)
         IN  Append(acc, [playerId |-> player.id, balance |-> player.balance,
                          eliminated |-> player.eliminated, rank |-> rank])

buildFinalStandings(playersSnapshot) == RankSorted(SortPlayers(playersSnapshot))

Max(a, b) == IF a >= b THEN a ELSE b

\* a record that counts the day as won whatever the standings say
recordAlwaysWon(s, playersSnapshot, mode) ==
    IF s.finalStatsRecordedRef \/ mode = "none" \/ Len(playersSnapshot) = 0
    THEN s
    ELSE [s EXCEPT !.finalStatsRecordedRef = TRUE,
                   !.playerStats[mode].wins = @ + 1]

\* recordFinalStats, called by the render whose gameMode is mode
recordFinalStats(s, playersSnapshot, mode) ==
    IF s.finalStatsRecordedRef \/ mode = "none" \/ Len(playersSnapshot) = 0
    THEN s
    ELSE LET standings == buildFinalStandings(playersSnapshot)
             userEntry == CHOOSE e \in Range(standings) : e.playerId = 1
             userPlayer == CHOOSE p \in Range(playersSnapshot) : p.id = 1
             userWon == ~userPlayer.eliminated /\ userEntry.rank = 1
         IN  [s EXCEPT
                !.finalStatsRecordedRef = TRUE,
                !.playerStats[mode] =
                    [wins |-> @.wins + (IF userWon THEN 1 ELSE 0),
                     bestBalance |-> Max(@.bestBalance, userPlayer.balance)]]

\* ------------------------------------------------------------------ rolls
\* a market scheduled without leaving the scratch phase
scheduleTradeMarketInScratch(s, playersSnapshot, render) ==
    [s EXCEPT
        !.showTradeModal = FALSE,
        !.tradeDelayRef =
            <<[gen |-> s.session, players |-> playersSnapshot,
               mode |-> render.gameMode, used |-> render.bailoutUsedByPlayer]>>]

\* scheduleTradeMarket: the delayed callback closes over the players handed
\* to it and over the render of the roll (its gameMode, bailoutUsedByPlayer)
scheduleTradeMarket(s, playersSnapshot, render) ==
    [s EXCEPT
        !.phase = "trade",
        !.showTradeModal = FALSE,
        !.tradeDelayRef =
            <<[gen |-> s.session, players |-> playersSnapshot,
               mode |-> render.gameMode, used |-> render.bailoutUsedByPlayer]>>]

\* a penalty taken from every player still in the game
ChargeEveryPlayer(s, horse) ==
    LET penalty ==
            scratchPenaltyByStep(IF horse.scratchStep = 0 THEN 1 ELSE horse.scratchStep)
        updatedPlayers ==
            [i \in 1..Len(s.players) |->
                IF ~s.players[i].eliminated
                THEN [s.players[i] EXCEPT !.balance = @ - penalty * Unit]
                ELSE s.players[i]]
    IN  IF penalty > 0
        THEN [WithBailout(s, updatedPlayers, s.gameMode, s.bailoutUsedByPlayer)
                EXCEPT !.pot = @ + penalty * Unit]
        ELSE s

\* the roller pays the step penalty of an already scratched horse
ChargeRoller(s, horse) ==
    LET penalty ==
            scratchPenaltyByStep(IF horse.scratchStep = 0 THEN 1 ELSE horse.scratchStep)
        updatedPlayers ==
            [i \in 1..Len(s.players) |->
                IF i - 1 = s.currentPlayerIndex
                THEN [s.players[i] EXCEPT !.balance = @ - penalty * Unit]
                ELSE s.players[i]]
    IN  IF penalty > 0
        THEN [WithBailout(s, updatedPlayers, s.gameMode, s.bailoutUsedByPlayer)
                EXCEPT !.pot = @ + penalty * Unit]
        ELSE s

\* a step that does not count the horses scratched before
firstScratchStep(s) == 1

newScratchStep(s) == Len(s.scratchHistory) + 1

\* the penalty once for a holder, however many cards are held
flatAmountOwed(penalty, matchingCards) == IF matchingCards > 0 THEN penalty ELSE 0

\* amountOwed of handleScratchRoll, in dollars
amountOwed(penalty, matchingCards) == penalty * matchingCards

\* the scratch of a horse that was not scratched yet
ScratchHorse(s, horseNumber) ==
    LET penalty == scratchPenaltyByStep(newScratchStep(s))
        owed == [i \in 1..Len(s.players) |->
                    amountOwed(penalty, CountValue(s.players[i].cards, horseNumber)) * Unit]
        updatedPlayers ==
            [i \in 1..Len(s.players) |->
                [s.players[i] EXCEPT
                    !.balance = @ - owed[i],
                    !.cards = WithoutValue(@, horseNumber)]]
        bailed == WithBailout(s, updatedPlayers, s.gameMode, s.bailoutUsedByPlayer)
        marked ==
            [bailed EXCEPT
                !.pot = @ + SumSeq(owed),
                !.horses[HorseIndex(s.horses, horseNumber)] =
                    [@ EXCEPT !.scratched = TRUE, !.scratchStep = newScratchStep(s)],
                !.scratchHistory = Append(@, horseNumber),
                !.forfeited =
                    @ \cup {c \in HandCards(s.players) : c.value = horseNumber}]
    IN  IF newScratchStep(s) >= 4
        THEN scheduleTradeMarket(marked, bailed.players, s)
        ELSE marked

handleScratchRoll(s, total) ==
    LET hi == HorseIndex(s.horses, total)
    IN  IF hi = 0 THEN s
        ELSE IF ~isCurrentPlayerActive(s) THEN advanceTurn(s, s.players)
        ELSE IF s.horses[hi].scratched
             THEN advanceTurn(ChargeRoller(s, s.horses[hi]), s.players)
             ELSE advanceTurn(ScratchHorse(s, total), s.players)

scheduleRaceSummary(s, summary) ==
    [s EXCEPT !.summaryDelayRef = <<[gen |-> s.session, summary |-> summary]>>]

\* a payout that leaves the pot as it was
PayHoldersKeepPot(s, updatedPlayers) == [s EXCEPT !.players = updatedPlayers]

\* setPlayers(updatedPlayers); setPot(0)
PayHolders(s, updatedPlayers) == [s EXCEPT !.players = updatedPlayers, !.pot = 0]

\* a share of the whole pot for every winning card
wholePotPerCard(potSnapshot, totalWinningCards) == potSnapshot

\* potSnapshot / totalWinningCards: the pot is a sum of penalties of 5, 10,
\* 15 and 20 dollars, so that the division by 1..4 cards is exact in 1/Unit
payoutPerCard(potSnapshot, totalWinningCards) == potSnapshot \div totalWinningCards

\* handlePayout reads players, pot, currentRace and totalRaces of the render
handlePayout(s, winningHorse) ==
    LET playersSnapshot == s.players
        counts == [i \in 1..Len(playersSnapshot) |->
                      CountValue(playersSnapshot[i].cards, winningHorse)]
        totalWinningCards == SumSeq(counts)
        potSnapshot == s.pot
        isFinalRace == s.currentRace >= totalRacesOf(s.gameMode)
        payout(i) == payoutPerCard(potSnapshot, totalWinningCards) * counts[i]
        updatedPlayers ==
            [i \in 1..Len(playersSnapshot) |->
                IF counts[i] = 0 THEN playersSnapshot[i]
                ELSE [playersSnapshot[i] EXCEPT !.balance = @ + payout(i)]]
        holders == SelectSeq([i \in 1..Len(playersSnapshot) |-> i],
                             LAMBDA i : counts[i] > 0)
        payouts == [k \in 1..Len(holders) |->
                       [playerId |-> playersSnapshot[holders[k]].id,
                        amount |-> payout(holders[k]),
                        cards |-> counts[holders[k]]]]
        final(t, ps) ==
            IF isFinalRace
            THEN recordFinalStats([t EXCEPT !.finalStandings = buildFinalStandings(ps)],
                                  ps, s.gameMode)
            ELSE t
    IN  IF totalWinningCards = 0
        THEN final(scheduleRaceSummary(s,
                       [winner |-> winningHorse, pot |-> potSnapshot,
                        carryover |-> TRUE, payouts |-> << >>]),
                   playersSnapshot)
        ELSE scheduleRaceSummary(
                 final(PayHolders(s, updatedPlayers), updatedPlayers),
                 [winner |-> winningHorse, pot |-> potSnapshot,
                  carryover |-> FALSE, payouts |-> payouts])

Min(a, b) == IF a <= b THEN a ELSE b

\* the finish threshold of handleRaceRoll: one slot behind the last peg hole
maxSpaces(horseNumber) == pegDistribution(horseNumber) + 1

\* an advance that ends the race and leaves the payout for later
AdvanceWithoutPayout(s, horseNumber) ==
    LET hi == HorseIndex(s.horses, horseNumber)
        newPosition == Min(maxSpaces(horseNumber), s.horses[hi].position + 1)
        moved == [s EXCEPT !.horses[hi].position = newPosition]
    IN  IF newPosition >= maxSpaces(horseNumber)
        THEN [moved EXCEPT !.phase = "finished", !.winner = horseNumber]
        ELSE advanceTurn(moved, s.players)

\* the advance of a live horse
AdvanceHorse(s, horseNumber) ==
    LET hi == HorseIndex(s.horses, horseNumber)
        newPosition == Min(maxSpaces(horseNumber), s.horses[hi].position + 1)
        moved == [s EXCEPT !.horses[hi].position = newPosition]
    IN  IF newPosition >= maxSpaces(horseNumber)
        THEN handlePayout([moved EXCEPT !.phase = "finished", !.winner = horseNumber],
                          horseNumber)
        ELSE advanceTurn(moved, s.players)

\* a race roll that advances the rolled horse, scratched or not
handleRaceRollAnyHorse(s, total) ==
    LET hi == HorseIndex(s.horses, total)
    IN  IF hi = 0 THEN s
        ELSE IF ~isCurrentPlayerActive(s) THEN advanceTurn(s, s.players)
        ELSE AdvanceHorse(s, total)

handleRaceRoll(s, total) ==
    LET hi == HorseIndex(s.horses, total)
    IN  IF hi = 0 THEN s
        ELSE IF ~isCurrentPlayerActive(s) THEN advanceTurn(s, s.players)
        ELSE IF s.horses[hi].scratched
             THEN advanceTurn(ChargeRoller(s, s.horses[hi]), s.players)
             ELSE AdvanceHorse(s, total)

\* a roll check that does not look at the roll in flight
RollRejectedUnlocked(s) ==
    \/ s.phase \in {"none", "finished", "trade"}
    \/ Len(s.players) = 0

RollRejected(s) ==
    \/ s.phase \in {"none", "finished", "trade"}
    \/ Len(s.players) = 0
    \/ s.isRolling

\* handleRoll with the dice total it drew
handleRoll(s, total) ==
    IF RollRejected(s) THEN s
    ELSE LET rolling ==
                 [s EXCEPT
                    !.lastRollByUserRef = isUserTurn(s),
                    !.isRolling = TRUE,
                    !.rollTimeoutRef = <<[gen |-> s.session]>>,
                    !.rolls = @ + 1,
                    !.last = Op(IF s.phase = "scratch" THEN "scratchRoll" ELSE "raceRoll",
                                IF isCurrentPlayerActive(s)
                                THEN s.players[s.currentPlayerIndex + 1].id ELSE 0,
                                total, s.session)]
         IN  IF s.phase = "scratch"
             THEN handleScratchRoll(rolling, total)
             ELSE handleRaceRoll(rolling, total)

\* -------------------------------------------------------------- next race
ActiveIndices(ps) ==
    SelectSeq([i \in 1..Len(ps) |-> i - 1], LAMBDA i : ~ps[i + 1].eliminated)

\* the position of index i in the list of active indices, from 0
ActiveCursor(ps, i) == Len(SelectSeq(ActiveIndices(ps), LAMBDA a : a < i))

\* a rotation over the seats, eliminated players included
startingSeat(activeIndices, nextRaceNumber) == (nextRaceNumber - 1) % NumPlayers

\* startingIndex of handleNextRace: activeIndices is indexed from 0
startingIndexOf(activeIndices, nextRaceNumber) ==
    IF Len(activeIndices) > 0
    THEN activeIndices[((nextRaceNumber - 1) % Len(activeIndices)) + 1]
    ELSE 0

\* a pot that is kept for the next race
carriedPot(potSnapshot) == potSnapshot

\* setPot(0) of handleNextRace, whatever the pot of the finished race holds
nextRacePot(potSnapshot) == 0

handleNextRace(s, shuffledDeck) ==
    IF s.gameMode = "none" \/ s.currentRace >= totalRacesOf(s.gameMode)
    THEN s
    ELSE LET nextRaceNumber == s.currentRace + 1
             activeIndices == ActiveIndices(s.players)
             n == Len(activeIndices)
             updatedPlayers ==
                 [i \in 1..Len(s.players) |->
                    IF s.players[i].eliminated
                    THEN [s.players[i] EXCEPT !.cards = << >>]
                    ELSE [s.players[i] EXCEPT
                            !.cards = dealHands(shuffledDeck, n,
                                                ActiveCursor(s.players, i - 1))]]
             startingIndex == startingIndexOf(activeIndices, nextRaceNumber)
         IN  [s EXCEPT
                !.players = updatedPlayers,
                !.horses = initialiseHorses,
                !.scratchHistory = << >>,
                !.pot = nextRacePot(s.pot),
                !.raceSummary = << >>,
                !.finalStandings = << >>,
                !.showFinalSummary = FALSE,
                !.tradeListings = << >>,
                !.tradeBuyCounts = NoCounts,
                !.tradeSellCounts = NoCounts,
                !.showTradeModal = FALSE,
                !.lastRollByUserRef = FALSE,
                !.summaryTimeoutRef = << >>,
                !.summaryDelayRef = << >>,
                !.aiRollTimeoutRef = << >>,
                !.tradeTimeoutRef = << >>,
                !.tradeAiTimeoutRef = << >>,
                !.tradeDelayRef = << >>,
                !.tradeAiDelayRef = << >>,
                !.tradeEndsAtRef = FALSE,
                !.winner = 0,
                !.phase = "scratch",
                !.currentRace = nextRaceNumber,
                !.currentPlayerIndex = startingIndex,
                !.forfeited = {},
                !.discarded = {}]

\* ----------------------------------------------------------------- market
\* a player who lists from a hand of one card
ListsLastCard(player) == ~player.eliminated /\ player.id # 1 /\ Len(player.cards) > 0

\* createAiListings: picks[id] holds the card indices Math.random drew for
\* the player, one per listing, each an index into the cards still in hand
ListsCards(player) == ~player.eliminated /\ player.id # 1 /\ Len(player.cards) > 1

RECURSIVE TakeCards(_, _)
TakeCards(cards, picks) ==
    IF picks = << >> THEN << >>
    ELSE <<cards[Head(picks)]>> \o TakeCards(RemoveAt(cards, Head(picks)), Tail(picks))

RECURSIVE LeaveCards(_, _)
LeaveCards(cards, picks) ==
    IF picks = << >> THEN cards
    ELSE LeaveCards(RemoveAt(cards, Head(picks)), Tail(picks))

RECURSIVE PicksBefore(_, _, _)
PicksBefore(ps, picks, i) ==
    IF i <= 1 THEN 0 ELSE Len(picks[ps[i - 1].id]) + PicksBefore(ps, picks, i - 1)

RECURSIVE ConcatAll(_)
ConcatAll(qs) == IF qs = << >> THEN << >> ELSE Head(qs) \o ConcatAll(Tail(qs))

createAiListings(playersSnapshot, picks, counter) ==
    LET listed(i) ==
            LET taken == TakeCards(playersSnapshot[i].cards, picks[playersSnapshot[i].id])
            IN  [k \in 1..Len(taken) |->
                    [id |-> counter + PicksBefore(playersSnapshot, picks, i) + k,
                     card |-> taken[k], sellerId |-> playersSnapshot[i].id]]
    IN  [updatedPlayers |->
            [i \in 1..Len(playersSnapshot) |->
                [playersSnapshot[i] EXCEPT
                    !.cards = LeaveCards(@, picks[playersSnapshot[i].id])]],
         listings |-> ConcatAll([i \in 1..Len(playersSnapshot) |-> listed(i)])]

\* openTradeMarket(playersSnapshot), run by the trade delay timer `timer`
openTradeMarket(s, timer, picks) ==
    LET made == createAiListings(timer.players, picks, s.listingCounterRef)
        callback == <<[gen |-> timer.gen, mode |-> timer.mode, used |-> timer.used]>>
    IN  [s EXCEPT
            !.tradeDelayRef = << >>,
            !.tradeEndsAtRef = TRUE,
            !.players = made.updatedPlayers,
            !.tradeListings = made.listings,
            !.listingCounterRef = @ + Len(made.listings),
            !.tradeBuyCounts = NoCounts,
            !.tradeSellCounts = NoCounts,
            !.showTradeModal = TRUE,
            !.tradeStateRef =
                [players |-> made.updatedPlayers, listings |-> made.listings,
                 buyCounts |-> NoCounts, sellCounts |-> NoCounts],
            !.phase = "trade",
            !.tradeAiTimeoutRef = << >>,
            !.tradeAiDelayRef = callback,
            !.tradeTimeoutRef = <<[gen |-> timer.gen]>>,
            !.last = Op("openTradeMarket", 0, 0, timer.gen)]

\* a close that returns no card
NoReturns(listingsSnapshot, player) == << >>

\* the cards of the open listings of the player, in the order of the listings
returns(listingsSnapshot, player) ==
    LET mine == SelectSeq(listingsSnapshot, LAMBDA l : l.sellerId = player.id)
    IN  [k \in 1..Len(mine) |-> mine[k].card]

closeTradeMarket(s) ==
    LET listingsSnapshot == s.tradeStateRef.listings
        playersSnapshot == s.tradeStateRef.players
        returnedPlayers ==
            [i \in 1..Len(playersSnapshot) |->
                [playersSnapshot[i] EXCEPT
                    !.cards = @ \o returns(listingsSnapshot, playersSnapshot[i])]]
    IN  [s EXCEPT
            !.tradeAiTimeoutRef = << >>,
            !.tradeAiDelayRef = << >>,
            !.tradeTimeoutRef = << >>,
            !.tradeDelayRef = << >>,
            !.tradeEndsAtRef = FALSE,
            !.tradeBuyCounts = NoCounts,
            !.tradeSellCounts = NoCounts,
            !.showTradeModal = FALSE,
            !.players = IF Len(listingsSnapshot) > 0 THEN returnedPlayers ELSE @,
            !.tradeListings = << >>,
            !.phase = "race"]

\* a purchase that leaves the bought listing open
KeepListing(listings, listingId) == listings

\* listings.filter((entry) => entry.id !== listing.id)
WithoutListing(listings, listingId) == SelectSeq(listings, LAMBDA l : l.id # listingId)

\* applyAiPurchases(snapshot, 1): who may buy, and what
AiBuyers(snapshot) ==
    {i \in 1..Len(snapshot.players) :
        /\ ~snapshot.players[i].eliminated
        /\ snapshot.players[i].id # 1
        /\ snapshot.players[i].balance >= LISTING_PRICE * Unit
        /\ snapshot.buyCounts[snapshot.players[i].id] < MAX_TRADES_PER_PLAYER}

\* a tick that may buy any open listing
AnyListing(snapshot, i) == 1..Len(snapshot.listings)

AiOptions(snapshot, i) ==
    LET eliminatedIds == {p.id : p \in {q \in Range(snapshot.players) : q.eliminated}}
    IN  {k \in 1..Len(snapshot.listings) :
            /\ snapshot.listings[k].sellerId # snapshot.players[i].id
            /\ snapshot.listings[k].sellerId \notin eliminatedIds
            /\ snapshot.sellCounts[snapshot.listings[k].sellerId] < MAX_TRADES_PER_PLAYER}

\* the one purchase of a tick: player i of the snapshot buys listing k; the
\* bailout check runs in the closure of the render that opened the market
applyAiPurchases(s, snapshot, timer, i, k) ==
    LET listing == snapshot.listings[k]
        buyer == snapshot.players[i]
        updatedPlayers ==
            [j \in 1..Len(snapshot.players) |->
                LET p == IF j = i
                         THEN [snapshot.players[j] EXCEPT
                                 !.balance = @ - LISTING_PRICE * Unit,
                                 !.cards = Append(@, listing.card)]
                         ELSE snapshot.players[j]
                IN  IF p.id = listing.sellerId
                    THEN [p EXCEPT !.balance = @ + LISTING_PRICE * Unit]
                    ELSE p]
        listings == WithoutListing(snapshot.listings, listing.id)
        buyCounts == [snapshot.buyCounts EXCEPT ![buyer.id] = @ + 1]
        sellCounts == [snapshot.sellCounts EXCEPT ![listing.sellerId] = @ + 1]
        bailed == BailoutOnPlayers(s, updatedPlayers, timer.mode, timer.used)
    IN  [bailed EXCEPT
            !.tradeListings = listings,
            !.tradeBuyCounts = buyCounts,
            !.tradeSellCounts = sellCounts,
            !.tradeStateRef =
                [players |-> bailed.players, listings |-> listings,
                 buyCounts |-> buyCounts, sellCounts |-> sellCounts],
            !.last = Op("aiBuy", buyer.id, listing.id, timer.gen)]

\* scheduleAiPurchase, called from the callback `timer`
scheduleAiPurchase(s, timer) ==
    IF s.tradeEndsAtRef THEN [s EXCEPT !.tradeAiTimeoutRef = <<timer>>] ELSE s

\* ---------------------------------------------------- human market actions
\* a listing check that does not look at the sell cap
ListRejectedNoCap(s, card) ==
    \/ s.phase # "trade"
    \/ Len(s.players) = 0
    \/ s.players[1].id # 1
    \/ s.players[1].eliminated
    \/ card \notin Range(s.players[1].cards)

ListRejected(s, card) ==
    \/ s.phase # "trade"
    \/ Len(s.players) = 0
    \/ s.players[1].id # 1
    \/ s.players[1].eliminated
    \/ s.tradeSellCounts[1]
         + Len(SelectSeq(s.tradeListings, LAMBDA l : l.sellerId = 1))
         >= MAX_TRADES_PER_PLAYER
    \/ card \notin Range(s.players[1].cards)

handleListCardForSale(s, card) ==
    IF ListRejected(s, card) THEN s
    ELSE LET cardIndex == CHOOSE i \in 1..Len(s.players[1].cards) :
                              /\ s.players[1].cards[i] = card
                              /\ \A j \in 1..(i - 1) : s.players[1].cards[j] # card
         IN  [s EXCEPT
                !.players[1].cards = RemoveAt(@, cardIndex),
                !.tradeListings =
                    Append(@, [id |-> s.listingCounterRef + 1, card |-> card,
                               sellerId |-> 1]),
                !.listingCounterRef = @ + 1,
                !.humanLists = @ + 1,
                !.last = Op("list", 1, s.listingCounterRef + 1, s.session)]

FindListing(ls, listingId) == {k \in 1..Len(ls) : ls[k].id = listingId}

\* a cancellation that does not give the card back
LoseCard(cards, card) == cards

\* [...player.cards, listing.card]
ReturnCard(cards, card) == Append(cards, card)

handleCancelListing(s, listingId) ==
    IF FindListing(s.tradeListings, listingId) = {} THEN s
    ELSE LET listing ==
                 s.tradeListings[CHOOSE k \in FindListing(s.tradeListings, listingId) : TRUE]
         IN  [s EXCEPT
                !.players =
                    [i \in 1..Len(s.players) |->
                        IF s.players[i].id = listing.sellerId
                        THEN [s.players[i] EXCEPT !.cards = ReturnCard(@, listing.card)]
                        ELSE s.players[i]],
                !.tradeListings = SelectSeq(@, LAMBDA l : l.id # listingId),
                !.last = Op("cancel", listing.sellerId, listingId, s.session)]

\* a purchase check that does not look at the buyer's purchases
BuyRejectedNoCap(s, listingId) ==
    \/ FindListing(s.tradeListings, listingId) = {}
    \/ LET listing ==
               s.tradeListings[CHOOSE k \in FindListing(s.tradeListings, listingId) : TRUE]
       IN  \/ listing.sellerId = 1
           \/ Len(s.players) = 0
           \/ s.players[1].eliminated
           \/ s.players[1].balance < LISTING_PRICE * Unit
           \/ s.tradeSellCounts[listing.sellerId] >= MAX_TRADES_PER_PLAYER

BuyRejected(s, listingId) ==
    \/ FindListing(s.tradeListings, listingId) = {}
    \/ LET listing ==
               s.tradeListings[CHOOSE k \in FindListing(s.tradeListings, listingId) : TRUE]
       IN  \/ listing.sellerId = 1
           \/ Len(s.players) = 0
           \/ s.players[1].eliminated
           \/ s.players[1].balance < LISTING_PRICE * Unit
           \/ s.tradeBuyCounts[1] >= MAX_TRADES_PER_PLAYER
           \/ s.tradeSellCounts[listing.sellerId] >= MAX_TRADES_PER_PLAYER

handleBuyListing(s, listingId) ==
    IF BuyRejected(s, listingId) THEN s
    ELSE LET listing ==
                 s.tradeListings[CHOOSE k \in FindListing(s.tradeListings, listingId) : TRUE]
             updatedPlayers ==
                 [i \in 1..Len(s.players) |->
                    IF s.players[i].id = 1
                    THEN [s.players[i] EXCEPT
                            !.balance = @ - LISTING_PRICE * Unit,
                            !.cards = Append(@, listing.card)]
                    ELSE IF s.players[i].id = listing.sellerId
                    THEN [s.players[i] EXCEPT !.balance = @ + LISTING_PRICE * Unit]
                    ELSE s.players[i]]
             bailed == WithBailout(s, updatedPlayers, s.gameMode, s.bailoutUsedByPlayer)
         IN  [bailed EXCEPT
                !.tradeListings = WithoutListing(@, listing.id),
                !.tradeBuyCounts[1] = @ + 1,
                !.tradeSellCounts[listing.sellerId] = @ + 1,
                !.last = Op("buy", 1, listing.id, s.session)]

\* ------------------------------------------------- inputs: dice and shuffles
\* the totals handleRoll draws (die1 + die2); four horses to scratch and one
\* that reaches its threshold at its third advance
DiceTotals == {2, 3, 4, 5, 12}

\* shuffleDeck's outcomes: the deck as created, and the deck with the 2s at
\* the positions 2, 5, 8, 11 (from 1), which a deal to three players hands to
\* the second of them
Swap(deck, a, b) ==
    [k \in 1..Len(deck) |-> IF k = a THEN deck[b] ELSE IF k = b THEN deck[a] ELSE deck[k]]
TwosDeck == Swap(Swap(Swap(createDeck, 5, 1), 8, 3), 11, 4)
Shuffles == {createDeck, TwosDeck}

\* ------------------------------------------------------------ initial states
Mounted ==
    [players |-> << >>, gameStarted |-> FALSE, gameMode |-> "none", currentRace |-> 1,
     horses |-> << >>, phase |-> "none", currentPlayerIndex |-> 0,
     raceSummary |-> << >>, finalStandings |-> << >>, showFinalSummary |-> FALSE,
     bailoutUsedByPlayer |-> {}, tradeListings |-> << >>, tradeBuyCounts |-> NoCounts,
     tradeSellCounts |-> NoCounts, showTradeModal |-> FALSE,
     playerStats |-> EMPTY_STATS, isRolling |-> FALSE, pot |-> 0,
     scratchHistory |-> << >>, winner |-> 0, rollTimeoutRef |-> << >>,
     summaryTimeoutRef |-> << >>, summaryDelayRef |-> << >>,
     aiRollTimeoutRef |-> << >>, tradeTimeoutRef |-> << >>, tradeEndsAtRef |-> FALSE,
     tradeAiTimeoutRef |-> << >>, tradeDelayRef |-> << >>, tradeAiDelayRef |-> << >>,
     finalStatsRecordedRef |-> FALSE, lastRollByUserRef |-> FALSE,
     tradeStateRef |-> EmptyTradeState, listingCounterRef |-> 0, session |-> 0,
     rolls |-> 0, humanLists |-> 0, bailoutCredits |-> NoCounts, forfeited |-> {}, discarded |-> {},
     last |-> Op("mount", 0, 0, 0)]

\* A session at the start of a later race of its day, as handleNextRace
\* leaves it: the balances (dollars) of the players still in, who is out,
\* who has used the bailout, and the deck dealt.  Earlier races reach such
\* balances by penalty rolls on scratched horses, which a race may repeat any
\* number of times before a horse finishes.
DayInProgress(mode, race, balances, out, used, deck) ==
    LET before ==
            [startGame(Mounted, mode, deck) EXCEPT
                !.players =
                    [i \in 1..NumPlayers |->
                        [id |-> i,
                         balance |-> IF i \in out THEN 0 ELSE balances[i] * Unit,
                         cards |-> << >>, eliminated |-> i \in out]],
                !.currentRace = race - 1,
                !.phase = "finished",
                !.bailoutUsedByPlayer = used,
                !.bailoutCredits = [id \in PlayerIds |-> IF id \in used THEN 1 ELSE 0],
                !.listingCounterRef = (NumPlayers - 1) * (race - 1)]
    IN  Settle(before, [handleNextRace(before, deck) EXCEPT
                            !.last = Op("nextRace", 0, race, 1)])

\* a session at the start of the last race of a half day, three players out
LastRace(balances, used, deck) ==
    DayInProgress("half", HalfRaces, balances, {4, 5, 6}, used, deck)

\* the dice of a session that starts after the initial state
LaterDice == <<3, 3, 5>>

\* the initial states with the dice of their session
Scenarios ==
    { [state |-> Mounted, dice |-> << >>],
      [state |-> LastRace(<<70, 40, 1000, 0, 0, 0>>, {}, TwosDeck),
       dice |-> <<3, 4, 12, 2, 3>>],
      [state |-> LastRace(<<400, 70, 1000, 0, 0, 0>>, {2}, TwosDeck),
       dice |-> <<3, 12, 4, 5, 2, 2, 2>>],
      [state |-> DayInProgress("half", HalfRaces - 1, <<10, 500, 15, 0, 0, 0>>,
                               {4, 5, 6}, {1}, createDeck),
       dice |-> <<3, 3, 4, 3, 12, 5, 2, 2, 2, 3>>],
      [state |-> DayInProgress("half", HalfRaces - 1, <<400, 20, 1000, 0, 0, 0>>,
                               {4, 5, 6}, {2}, TwosDeck),
       dice |-> <<3, 12, 4, 5, 2, 2, 2, 3>>],
      [state |-> LastRace(<<100, 500, 1000, 0, 0, 0>>, {1}, createDeck),
       dice |-> <<3, 12, 4, 5, 2, 2, 2>>],
      [state |-> LastRace(<<95, 500, 1000, 0, 0, 0>>, {1}, createDeck),
       dice |-> <<3, 12, 4, 5>>] }

InitAs(s) ==
    /\ players = s.players /\ gameStarted = s.gameStarted
    /\ gameMode = s.gameMode /\ currentRace = s.currentRace
    /\ horses = s.horses /\ phase = s.phase
    /\ currentPlayerIndex = s.currentPlayerIndex
    /\ raceSummary = s.raceSummary /\ finalStandings = s.finalStandings
    /\ showFinalSummary = s.showFinalSummary
    /\ bailoutUsedByPlayer = s.bailoutUsedByPlayer
    /\ tradeListings = s.tradeListings /\ tradeBuyCounts = s.tradeBuyCounts
    /\ tradeSellCounts = s.tradeSellCounts /\ showTradeModal = s.showTradeModal
    /\ playerStats = s.playerStats /\ isRolling = s.isRolling /\ pot = s.pot
    /\ scratchHistory = s.scratchHistory /\ winner = s.winner
    /\ rollTimeoutRef = s.rollTimeoutRef
    /\ summaryTimeoutRef = s.summaryTimeoutRef
    /\ summaryDelayRef = s.summaryDelayRef
    /\ aiRollTimeoutRef = s.aiRollTimeoutRef
    /\ tradeTimeoutRef = s.tradeTimeoutRef /\ tradeEndsAtRef = s.tradeEndsAtRef
    /\ tradeAiTimeoutRef = s.tradeAiTimeoutRef
    /\ tradeDelayRef = s.tradeDelayRef /\ tradeAiDelayRef = s.tradeAiDelayRef
    /\ finalStatsRecordedRef = s.finalStatsRecordedRef
    /\ lastRollByUserRef = s.lastRollByUserRef
    /\ tradeStateRef = s.tradeStateRef
    /\ listingCounterRef = s.listingCounterRef /\ session = s.session
    /\ rolls = s.rolls /\ humanLists = s.humanLists
    /\ bailoutCredits = s.bailoutCredits
    /\ forfeited = s.forfeited /\ discarded = s.discarded /\ last = s.last

Init ==
    \E sc \in Scenarios :
        InitAs(sc.state) /\ dice = [free |-> FALSE, left |-> sc.dice]

\* ---------------------------------------------------------------- actions
\* the positions (from 1) that a card draw of the market may give: the
\* cardIndex of createAiListings, and the card the human lists
CardDraws == {1}

\* createAiListings' draws: one listing, or two (wantsTwo), each a card index
PickSets(player) ==
    IF ~ListsCards(player) THEN {<< >>}
    ELSE LET n == Len(player.cards)
         IN  {<<a>> : a \in CardDraws \cap 1..n}
             \cup (IF n - 1 >= 2
                   THEN {<<a, b>> : a \in CardDraws \cap 1..n,
                                   b \in CardDraws \cap 1..(n - 1)}
                   ELSE {})
ListingPicks(ps) ==
    {f \in [PlayerIds -> UNION {PickSets(ps[i]) : i \in 1..Len(ps)}] :
        \A i \in 1..Len(ps) : f[ps[i].id] \in PickSets(ps[i])}

\* a handler runs, the component renders and its effects run; a roll uses up
\* a total of the dice, and a new session gets the dice of later sessions
Do(s) ==
    \E handled \in {s} : \E t \in {Settle(Cur, handled)} :
        /\ Install(t)
        /\ dice' = IF dice.free THEN dice
                   ELSE IF t.session # session THEN [dice EXCEPT !.left = LaterDice]
                   ELSE IF t.rolls # rolls THEN [dice EXCEPT !.left = Tail(@)]
                   ELSE dice

\* the totals the next roll may draw
NextTotals ==
    IF dice.free
    THEN IF rolls < MaxRolls THEN DiceTotals ELSE {}
    ELSE IF dice.left # << >> THEN {Head(dice.left)} ELSE {}

\* home screen: Half Day / Full Day
StartGame ==
    /\ ~gameStarted
    /\ session < MaxSessions
    /\ \E mode \in {"half", "full"}, deck \in Shuffles : Do(startGame(Cur, mode, deck))

\* final standings: Play Again
PlayAgain ==
    /\ gameStarted /\ showFinalSummary /\ Len(finalStandings) > 0
    /\ gameMode # "none"
    /\ session < MaxSessions
    /\ \E deck \in Shuffles : Do(startGame(Cur, gameMode, deck))

\* Exit, or Return to Home from the final standings
ResetGame ==
    /\ gameStarted
    /\ session < MaxSessions
    /\ Do(resetGame(Cur))

\* the human clicks the dice
HumanRoll ==
    /\ gameStarted /\ canRoll(Cur)
    /\ \E total \in NextTotals : Do(handleRoll(Cur, total))

\* the AI auto-roll timer fires
AiRollTimeout ==
    /\ aiRollTimeoutRef # << >>
    /\ \E total \in NextTotals : \E fired \in {[Cur EXCEPT !.aiRollTimeoutRef = << >>]} :
          Do(handleRoll(fired, total))

\* the 800 ms roll lock ends
RollTimeout ==
    /\ rollTimeoutRef # << >>
    /\ Do([Cur EXCEPT !.isRolling = FALSE, !.rollTimeoutRef = << >>,
                      !.last = Op("rollTimeout", 0, 0, rollTimeoutRef[1].gen)])

\* the 1.5 s market open delay ends (it was set together with the roll lock)
TradeDelayTimeout ==
    /\ tradeDelayRef # << >>
    /\ rollTimeoutRef = << >>
    /\ \E picks \in ListingPicks(tradeDelayRef[1].players) :
          Do(openTradeMarket(Cur, tradeDelayRef[1], picks))

\* the 13.5 s delay before the first AI purchase tick ends
TradeAiDelayTimeout ==
    /\ tradeAiDelayRef # << >>
    /\ Do([scheduleAiPurchase([Cur EXCEPT !.tradeAiDelayRef = << >>], tradeAiDelayRef[1])
             EXCEPT !.last = Op("aiDelay", 0, 0, tradeAiDelayRef[1].gen)])

\* an AI purchase tick that buys
AiPurchase ==
    /\ tradeAiTimeoutRef # << >>
    /\ tradeEndsAtRef
    /\ \E i \in AiBuyers(tradeStateRef) : \E k \in AiOptions(tradeStateRef, i) :
          Do(scheduleAiPurchase(
                applyAiPurchases([Cur EXCEPT !.tradeAiTimeoutRef = << >>],
                                 tradeStateRef, tradeAiTimeoutRef[1], i, k),
                tradeAiTimeoutRef[1]))

\* an AI purchase tick that buys nothing (or finds the market closed)
AiPass ==
    /\ tradeAiTimeoutRef # << >>
    /\ Do([scheduleAiPurchase([Cur EXCEPT !.tradeAiTimeoutRef = << >>],
                              tradeAiTimeoutRef[1])
             EXCEPT !.last = Op("aiPass", 0, 0, tradeAiTimeoutRef[1].gen)])

\* the 35 s market timer fires
TradeTimeout ==
    /\ tradeTimeoutRef # << >>
    /\ Do([closeTradeMarket(Cur) EXCEPT
             !.last = Op("closeTradeMarket", 0, 0, tradeTimeoutRef[1].gen)])

\* trading window: Start Race
StartRace ==
    /\ phase = "trade" /\ showTradeModal
    /\ Do([closeTradeMarket(Cur) EXCEPT !.last = Op("closeTradeMarket", 1, 0, session)])

\* trading window: List, on a card of the hand, while the human has listed
\* fewer than `most` cards
ListCardUpTo(most) ==
    /\ phase = "trade" /\ showTradeModal
    /\ humanLists < most
    /\ \E c \in CardDraws \cap 1..Len(players[1].cards) :
          /\ ~ListRejected(Cur, players[1].cards[c])
          /\ Do(handleListCardForSale(Cur, players[1].cards[c]))

ListCard == ListCardUpTo(MaxListings)

\* trading window: Cancel, on a listing of the human
CancelListing ==
    /\ phase = "trade" /\ showTradeModal
    /\ \E k \in 1..Len(tradeListings) :
          /\ tradeListings[k].sellerId = 1
          /\ Do(handleCancelListing(Cur, tradeListings[k].id))

\* trading window: Buy
BuyListing ==
    /\ phase = "trade" /\ showTradeModal
    /\ \E k \in 1..Len(tradeListings) :
          /\ ~BuyRejected(Cur, tradeListings[k].id)
          /\ Do(handleBuyListing(Cur, tradeListings[k].id))

\* the 1.5 s delay before the race summary ends
SummaryDelayTimeout ==
    /\ summaryDelayRef # << >>
    /\ rollTimeoutRef = << >>
    /\ Do([Cur EXCEPT !.raceSummary = <<summaryDelayRef[1].summary>>,
                      !.summaryDelayRef = << >>,
                      !.last = Op("summaryDelay", 0, 0, summaryDelayRef[1].gen)])

\* the 10 s auto-advance fires: its closure decides between the next race
\* (the handler of the latest render) and the final standings
SummaryTimeout ==
    /\ summaryTimeoutRef # << >>
    /\ \E deck \in Shuffles :
          Do([(IF summaryTimeoutRef[1].advance
               THEN handleNextRace(Cur, deck)
               ELSE [Cur EXCEPT !.raceSummary = << >>, !.showFinalSummary = TRUE])
              EXCEPT !.summaryTimeoutRef = << >>,
                     !.last = Op("summaryTimeout", 0, 0, summaryTimeoutRef[1].gen)])

\* race results: Next Race
NextRace ==
    /\ phase = "finished" /\ winner # 0 /\ raceSummary # << >>
    /\ currentRace < totalRacesOf(gameMode)
    /\ \E deck \in Shuffles :
          Do([handleNextRace(Cur, deck) EXCEPT
                !.last = Op("nextRace", 1, currentRace + 1, session)])

\* race results: View Final Standings
ViewFinalStandings ==
    /\ phase = "finished" /\ winner # 0 /\ raceSummary # << >>
    /\ currentRace >= totalRacesOf(gameMode)
    /\ Do([Cur EXCEPT !.raceSummary = << >>, !.showFinalSummary = TRUE,
                      !.last = Op("viewFinal", 1, 0, session)])

Next ==
    \/ StartGame \/ PlayAgain \/ ResetGame
    \/ HumanRoll \/ AiRollTimeout \/ RollTimeout
    \/ TradeDelayTimeout \/ TradeAiDelayTimeout \/ AiPurchase \/ AiPass
    \/ TradeTimeout \/ StartRace \/ ListCard \/ CancelListing \/ BuyListing
    \/ SummaryDelayTimeout \/ SummaryTimeout \/ NextRace \/ ViewFinalStandings

Spec == Init /\ [][Next]_vars

\* The roll timers fire: an auto-roll timer or a roll lock timer that stays
\* pending fires.  The human's clicks and the other timers are under no such
\* obligation.
Fairness == WF_vars(AiRollTimeout) /\ WF_vars(RollTimeout)

\* One session that is not reset, its roll timers firing: two half days at
\* the race before the last with three players left, played by rolls,
\* timers, Start Race and Next Race.  In the first the human, in the second
\* the second player is eliminated by the first roll of the race.
LiveDice == <<3, 12, 4, 5, 2, 2, 2, 3>>

InitLive ==
    /\ \/ InitAs(DayInProgress("half", HalfRaces - 1, <<5, 500, 15, 0, 0, 0>>,
                                {4, 5, 6}, {1}, createDeck))
       \/ InitAs(DayInProgress("half", HalfRaces - 1, <<400, 20, 1000, 0, 0, 0>>,
                                {4, 5, 6}, {2}, TwosDeck))
    /\ dice = [free |-> FALSE, left |-> LiveDice]

NextLive ==
    \/ HumanRoll \/ AiRollTimeout \/ RollTimeout
    \/ TradeDelayTimeout \/ TradeAiDelayTimeout \/ AiPurchase \/ AiPass
    \/ TradeTimeout \/ StartRace
    \/ SummaryDelayTimeout \/ SummaryTimeout \/ NextRace

SpecLive == InitLive /\ [][NextLive]_vars /\ Fairness

\* The rolls of one race under any dice: the last race of a half day with
\* three players left, the market opened and closed by its timers.
InitRolls ==
    /\ InitAs(LastRace(<<400, 40, 1000, 0, 0, 0>>, {}, createDeck))
    /\ dice = [free |-> TRUE, left |-> << >>]

NextRolls ==
    \/ HumanRoll \/ AiRollTimeout \/ RollTimeout
    \/ TradeDelayTimeout \/ TradeTimeout

SpecRolls == InitRolls /\ [][NextRolls]_vars

\* One market under any order of human actions and AI ticks: the last race
\* of a half day with the human and one AI player left, the dice scratching
\* four horses, and the human free to list more cards than the cap allows.
ListCardMarket == ListCardUpTo(MaxMarketListings)

InitMarket ==
    /\ InitAs(DayInProgress("half", HalfRaces, <<400, 1000, 0, 0, 0, 0>>,
                            {3, 4, 5, 6}, {}, createDeck))
    /\ dice = [free |-> FALSE, left |-> <<3, 4, 5, 12>>]

NextMarket ==
    \/ HumanRoll \/ AiRollTimeout \/ RollTimeout
    \/ TradeDelayTimeout \/ TradeAiDelayTimeout \/ AiPurchase \/ AiPass
    \/ TradeTimeout \/ StartRace \/ ListCardMarket \/ CancelListing \/ BuyListing

SpecMarket == InitMarket /\ [][NextMarket]_vars

\* The opening of a market among six players: the second race of a half day
\* with a deck that deals each player a run of neighbouring values, so that
\* scratching 2, 4, 5 and 12 leaves player 2 with one card, player 6 with two
\* and players 3, 4, 5 with seven; player 6 is rich or on the brink of
\* elimination.  The human may buy and may start the race.
HandStarts == <<0, 8, 16, 23, 30, 37>>
StackedDeck ==
    [k \in 1..44 |->
        createDeck[((HandStarts[((k - 1) % NumPlayers) + 1] + ((k - 1) \div NumPlayers) + 1) % 44) + 1]]
OpenDice == <<2, 4, 5, 12, 6>>

InitOpen ==
    /\ \/ InitAs(DayInProgress("half", 2, <<300, 300, 300, 300, 300, 300>>, {}, {}, StackedDeck))
       \/ InitAs(DayInProgress("half", 2, <<300, 300, 300, 300, 300, 50>>, {}, {6}, StackedDeck))
    /\ dice = [free |-> FALSE, left |-> OpenDice]

NextOpen ==
    \/ HumanRoll \/ AiRollTimeout \/ RollTimeout
    \/ TradeDelayTimeout \/ TradeTimeout \/ StartRace \/ BuyListing

SpecOpen == InitOpen /\ [][NextOpen]_vars

\* The last race of a half day with two players left, both with the bailout
\* used and one or both of them down to 25 dollars, under any dice: a charge
\* can eliminate the last players still in.
BrinkBalances == {<<25, 25, 0, 0, 0, 0>>, <<25, 300, 0, 0, 0, 0>>, <<300, 25, 0, 0, 0, 0>>}

InitBrink ==
    /\ \E balances \in BrinkBalances :
          InitAs(DayInProgress("half", HalfRaces, balances, {3, 4, 5, 6}, {1, 2}, createDeck))
    /\ dice = [free |-> TRUE, left |-> << >>]

NextBrink ==
    \/ HumanRoll \/ AiRollTimeout \/ RollTimeout
    \/ TradeDelayTimeout \/ TradeTimeout

SpecBrink == InitBrink /\ [][NextBrink]_vars

\* The end of a half day from a range of balances: the race to begin (the
\* last one or the one before), who is still in and what each player owns are
\* drawn from small sets, the dice scratch four horses and let horse 2 finish
\* in each race, and the market is left to its timers.  One more day has the
\* only holder of the 2s on the brink of elimination, so that horse 2 can
\* finish with no card of it left, and one more is a full day at the same
\* distance from its end.
FinishBalances == {300, 400, 500}
FinishOuts == {{4, 5, 6}, {5, 6}, {1, 5, 6}}
FinishRaces == {HalfRaces - 1, HalfRaces}
FinishDice == <<3, 4, 5, 12, 2, 6, 2, 2>>

InitFinish ==
    /\ \E race \in FinishRaces :
          \/ \E b1, b2 \in FinishBalances, out \in FinishOuts :
                InitAs(DayInProgress("half", race, <<b1, b2, 400, 300, 0, 0>>,
                                     out, {}, createDeck))
          \/ InitAs(DayInProgress("half", race, <<400, 20, 1000, 0, 0, 0>>,
                                  {4, 5, 6}, {2}, TwosDeck))
          \/ InitAs(DayInProgress("full", race + FullRaces - HalfRaces,
                                  <<400, 500, 400, 0, 0, 0>>, {4, 5, 6}, {}, createDeck))
    /\ dice = [free |-> FALSE, left |-> FinishDice \o FinishDice]

NextFinish ==
    \/ HumanRoll \/ AiRollTimeout \/ RollTimeout
    \/ TradeDelayTimeout \/ TradeTimeout
    \/ SummaryDelayTimeout \/ SummaryTimeout \/ NextRace \/ ViewFinalStandings
    \/ PlayAgain

SpecFinish == InitFinish /\ [][NextFinish]_vars

\* ================================================================ properties
\* the cards in circulation: every hand, then every open listing
Hands == ConcatAll([i \in 1..Len(players) |-> players[i].cards])
Circulation == Hands \o [k \in 1..Len(tradeListings) |-> tradeListings[k].card]
NoCardTwice == Cardinality(Range(Circulation)) = Len(Circulation)

\* C1 as stated: in a race no card is in two places, and the hands plus the
\* open listings hold exactly the 44 dealt cards minus the cards forfeited by
\* scratch events.
C1_AsStated ==
    gameStarted => NoCardTwice /\ Range(Circulation) = AllCards \ forfeited

\* C1: in a race no card is in two places, and the hands plus the open
\* listings hold exactly the 44 dealt cards minus the cards forfeited by
\* scratch events and minus the cards dropped when their holder or seller was
\* eliminated; no card is both forfeited and dropped.
C1_CardConservation ==
    gameStarted =>
        /\ NoCardTwice
        /\ Range(Circulation) = AllCards \ (forfeited \cup discarded)
        /\ forfeited \cap discarded = {}

\* a market with open listings, after scratches forfeited cards and an
\* elimination dropped some
C1_Witness ==
    /\ gameStarted /\ phase = "trade" /\ tradeListings # << >>
    /\ forfeited # {} /\ discarded # {}
    /\ \E i \in 1..Len(players) : players[i].cards # << >>

\* C2: a player with eliminated = true holds no card and has balance exactly
\* 0, in every reachable state (after a market close and after a payout too).
C2_EliminatedEmpty ==
    \A i \in 1..Len(players) :
        players[i].eliminated => players[i].cards = << >> /\ players[i].balance = 0

\* C3: once a player is eliminated, for the rest of the day (the same
\* session) the player stays eliminated, the balance stays 0 through every
\* later step, and no roll is resolved with that player as the roller.
C3_StaysOut ==
    [][\A i \in 1..Len(players) :
          (session' = session /\ players[i].eliminated) =>
              /\ players'[i].eliminated
              /\ players'[i].balance = 0
              /\ ~(rolls' = rolls + 1 /\ last'.actor = players[i].id)]_vars

\* C4: within one day each player is credited the bailout amount at most
\* once, whatever rolls, human market actions and AI purchase ticks happen.
C4_OneBailoutPerDay == \A id \in PlayerIds : bailoutCredits[id] <= 1

WinningCards(ps, horse) ==
    SumSeq([i \in 1..Len(ps) |-> CountValue(ps[i].cards, horse)])

\* the step is a race roll that finished the race
PayoutStep == phase = "race" /\ phase' = "finished" /\ session' = session

\* C5: the pot is never negative; the step that pays out a finished race
\* leaves the pot at 0 when a winning card was held, and leaves the pot and
\* every balance unchanged, with carryover = true, when none was held.
C5_Pot ==
    /\ [](pot >= 0)
    /\ [][PayoutStep =>
             /\ summaryDelayRef' # << >>
             /\ IF WinningCards(players, winner') > 0
                THEN pot' = 0 /\ ~summaryDelayRef'[1].summary.carryover
                ELSE /\ pot' = pot /\ summaryDelayRef'[1].summary.carryover
                     /\ \A i \in 1..Len(players) :
                           players'[i].balance = players[i].balance]_vars

\* a race has paid a positive pot to the holders of the winning horse
C5_Witness ==
    /\ phase = "finished" /\ winner # 0 /\ pot = 0
    /\ summaryDelayRef # << >>
    /\ ~summaryDelayRef[1].summary.carryover
    /\ summaryDelayRef[1].summary.pot > 0

\* a race has ended with no winning card held: the pot carries over
C5_WitnessCarryover ==
    /\ phase = "finished" /\ winner # 0 /\ pot > 0
    /\ summaryDelayRef # << >>
    /\ summaryDelayRef[1].summary.carryover

ScratchedHorses == {i \in 1..Len(horses) : horses[i].scratched}

\* C6: for every sequence of scratch rolls the k-th horse to be scratched
\* gets scratchStep k and keeps it; the steps in use are exactly 1..n for n
\* scratched horses; once the scratch phase is over exactly 4 horses are
\* scratched (steps {1,2,3,4}) and no horse is scratched later in that race.
C6_ScratchSteps ==
    /\ [](/\ {horses[i].scratchStep : i \in ScratchedHorses}
              = 1..Cardinality(ScratchedHorses)
          /\ Cardinality(ScratchedHorses) <= 4
          /\ (gameStarted /\ phase # "scratch") => Cardinality(ScratchedHorses) = 4)
    /\ [][(session' = session /\ currentRace' = currentRace) =>
             \A i \in 1..Len(horses) :
                /\ horses[i].scratched =>
                      /\ horses'[i].scratched
                      /\ horses'[i].scratchStep = horses[i].scratchStep
                /\ (~horses[i].scratched /\ horses'[i].scratched) =>
                      /\ phase = "scratch"
                      /\ horses'[i].scratchStep = Cardinality(ScratchedHorses) + 1]_vars

\* the race is on after four scratches and at least one roll on a horse that
\* was already scratched
C6_Witness ==
    /\ phase = "race" /\ Cardinality(ScratchedHorses) = 4
    /\ Len(scratchHistory) = 4 /\ rolls > 4 /\ pot > 0
    /\ \A i \in 1..Len(horses) : horses[i].position = 0

\* the step is the roll that scratches the fourth horse
FourthScratchRoll ==
    /\ rolls' = rolls + 1 /\ last'.op = "scratchRoll"
    /\ Len(scratchHistory) = 3 /\ Len(scratchHistory') = 4

\* C7: within a race the phase changes only Scratch -> Trade -> Race ->
\* Finished, one phase at a time; from Finished only to Scratch of the next
\* race; the race number changes with no other step; Trade is entered only
\* by the roll that scratches the fourth horse (so once per race).  Every
\* other phase change is a resetGame or a startGame.
C7_PhaseOrder ==
    [][(phase' # phase \/ currentRace' # currentRace) =>
          \/ /\ session' # session
             /\ last'.op \in {"startGame", "resetGame"}
          \/ /\ phase = "scratch" /\ phase' = "trade"
             /\ currentRace' = currentRace /\ FourthScratchRoll
          \/ /\ phase = "trade" /\ phase' = "race" /\ currentRace' = currentRace
          \/ /\ phase = "race" /\ phase' = "finished" /\ currentRace' = currentRace
          \/ /\ phase = "finished" /\ phase' = "scratch"
             /\ currentRace' = currentRace + 1]_vars

\* a race went through all four phases and the next race has begun
C7_Witness ==
    /\ phase = "scratch" /\ last.op \in {"nextRace", "summaryTimeout"}
    /\ rolls >= 7 /\ currentRace = HalfRaces /\ scratchHistory = << >>

\* the step is a roll resolved from the AI auto-roll timer
AiRollStep == aiRollTimeoutRef # << >> /\ rolls' = rolls + 1

\* C8: at most one AI auto-roll timer is pending; one is pending only in the
\* Scratch or Race phase, with no roll in flight and a non-eliminated AI
\* player as the active player; the roll it resolves is that player's, it
\* leaves no timer pending while its roll lock lasts, and it passes the turn
\* on when another player is still in and the race goes on: one roll a turn.
C8_AutoRoll ==
    /\ [](/\ Len(aiRollTimeoutRef) <= 1
          /\ aiRollTimeoutRef # << >> =>
                /\ phase \in {"scratch", "race"}
                /\ ~isRolling
                /\ currentPlayerIndex + 1 \in 1..Len(players)
                /\ players[currentPlayerIndex + 1].id # 1
                /\ ~players[currentPlayerIndex + 1].eliminated)
    /\ [][AiRollStep =>
             /\ last'.actor = players[currentPlayerIndex + 1].id
             /\ aiRollTimeoutRef' = << >> /\ isRolling'
             /\ (/\ phase' \in {"scratch", "race"}
                 /\ \E j \in 1..Len(players') :
                       j # currentPlayerIndex + 1 /\ ~players'[j].eliminated)
                   => currentPlayerIndex' # currentPlayerIndex]_vars

\* an AI roll was resolved, its roll lock ended, and the timer of the next
\* AI player is pending
C8_Witness ==
    /\ aiRollTimeoutRef # << >> /\ last.op = "rollTimeout"
    /\ rolls >= 2 /\ lastRollByUserRef = FALSE
    /\ players[currentPlayerIndex + 1].id = 3

\* the React state of the component
GameState ==
    <<players, gameStarted, gameMode, currentRace, horses, phase,
      currentPlayerIndex, raceSummary, finalStandings, showFinalSummary,
      bailoutUsedByPlayer, tradeListings, tradeBuyCounts, tradeSellCounts,
      showTradeModal, playerStats, isRolling, pot, scratchHistory, winner>>

\* the step is the callback of a timer that an earlier session scheduled
StaleTimerStep == last' # last /\ session' = session /\ last'.gen < session

\* C9: after resetGame or a new startGame (Play Again included) no timer
\* scheduled in an earlier session fires and changes state of the new one.
C9_NoStaleTimer == [][StaleTimerStep => UNCHANGED GameState]_vars

\* the step is a successful purchase, by the human (buy) or an AI tick (aiBuy)
PurchaseStep == last' # last /\ last'.op \in {"buy", "aiBuy"}

\* player i after the payment of a purchase by buyerId of the listing
AfterPayment(i, buyerId, listing) ==
    IF players[i].id = buyerId
    THEN [players[i] EXCEPT !.balance = @ - LISTING_PRICE * Unit,
                            !.cards = Append(@, listing.card)]
    ELSE IF players[i].id = listing.sellerId
    THEN [players[i] EXCEPT !.balance = @ + LISTING_PRICE * Unit]
    ELSE players[i]

\* C10: a successful purchase takes 30 from the buyer, gives 30 to the
\* seller, appends the listed card to the buyer's hand, removes that listing
\* and adds one to the buyer's buy count and to the seller's sell count; no
\* other player, listing or count changes.  Only a player left without money
\* by the payment, or eliminated before, is then adjusted: credited the
\* bailout, or set to eliminated with balance 0 and no cards, and the open
\* listings of the players eliminated by this step may go with them.
C10_Purchase ==
    [][PurchaseStep =>
          \E k \in 1..Len(tradeListings) :
             LET listing == tradeListings[k]
                 buyerId == last'.actor
             IN  /\ listing.id = last'.arg
                 /\ buyerId # listing.sellerId
                 /\ tradeListings' \in
                       {RemoveAt(tradeListings, k),
                        FilterListings(RemoveAt(tradeListings, k),
                                       EliminatedIds(players, players'))}
                 /\ tradeBuyCounts' = [tradeBuyCounts EXCEPT ![buyerId] = @ + 1]
                 /\ tradeSellCounts' =
                       [tradeSellCounts EXCEPT ![listing.sellerId] = @ + 1]
                 /\ Len(players') = Len(players)
                 /\ \A i \in 1..Len(players) :
                       LET paid == AfterPayment(i, buyerId, listing)
                       IN  IF paid.balance > 0 /\ ~paid.eliminated
                           THEN players'[i] = paid
                           ELSE \/ players'[i] =
                                      [paid EXCEPT !.balance = @ + BailoutAmount(gameMode) * Unit]
                                \/ players'[i] =
                                      [paid EXCEPT !.balance = 0, !.cards = << >>,
                                                   !.eliminated = TRUE]]_vars

\* the human has just bought a listing in a market where an AI tick bought too
C10_Witness ==
    /\ phase = "trade" /\ last.op = "buy"
    /\ tradeBuyCounts[1] >= 1
    /\ \E id \in PlayerIds \ {1} : tradeBuyCounts[id] >= 1
    /\ players[1].balance > 0

\* the human bought a listing with the last 30 dollars and was eliminated
\* with a listing of its own open
C10_WitnessEliminated ==
    /\ phase = "trade" /\ last.op = "buy"
    /\ players[1].eliminated /\ humanLists > 0
    /\ discarded # {}

\* what a player may still sell in this market: the cap less the cards sold
\* and the open listings
SellCapacity(s, id) ==
    MAX_TRADES_PER_PLAYER - s.tradeSellCounts[id]
        - Len(SelectSeq(s.tradeListings, LAMBDA l : l.sellerId = id))

Balances(ps) == [i \in 1..Len(ps) |-> ps[i].balance]

\* the same cards, in any order
SameCards(a, b) == Len(a) = Len(b) /\ Range(a) = Range(b)

\* the human lists the card, the component renders, the human cancels
ListThenCancel(s, card) ==
    LET listed == Settle(s, handleListCardForSale(s, card))
    IN  handleCancelListing(listed, listed.last.arg)

RoundTrip(s, card) ==
    LET listed == Settle(s, handleListCardForSale(s, card))
        back == ListThenCancel(s, card)
    IN  /\ card \notin Range(listed.players[1].cards)
        /\ listed.tradeListings =
              Append(s.tradeListings,
                     [id |-> listed.last.arg, card |-> card, sellerId |-> 1])
        /\ SameCards(back.players[1].cards, s.players[1].cards)
        /\ \A i \in 2..Len(s.players) : back.players[i] = s.players[i]
        /\ back.tradeListings = s.tradeListings
        /\ Balances(back.players) = Balances(s.players)
        /\ Balances(listed.players) = Balances(s.players)
        /\ back.tradeSellCounts = s.tradeSellCounts
        /\ back.tradeBuyCounts = s.tradeBuyCounts
        /\ SellCapacity(back, 1) = SellCapacity(s, 1)
        /\ SellCapacity(listed, 1) = SellCapacity(s, 1) - 1

\* the step is a cancellation of an open listing
CancelStep == last' # last /\ last'.op = "cancel"

\* C11: listing a card and then cancelling that unsold listing is a round
\* trip: the card is back in the seller's hand, the listing is gone, every
\* balance is unchanged and the seller's remaining sell capacity is what it
\* was before listing.  Whenever an unsold listing is cancelled, its card
\* goes to its seller's hand, the listing goes, and no balance, count or
\* other listing changes.
C11_ListCancelRoundTrip ==
    /\ [](phase = "trade" =>
            \A c \in 1..Len(players[1].cards) :
               ~ListRejected(Cur, players[1].cards[c]) =>
                   RoundTrip(Cur, players[1].cards[c]))
    /\ [][CancelStep =>
             \E k \in 1..Len(tradeListings) :
                LET listing == tradeListings[k]
                IN  /\ listing.id = last'.arg /\ listing.sellerId = last'.actor
                    /\ tradeListings' = RemoveAt(tradeListings, k)
                    /\ Balances(players') = Balances(players)
                    /\ \A i \in 1..Len(players) :
                          players'[i].cards =
                              IF players[i].id = listing.sellerId
                              THEN Append(players[i].cards, listing.card)
                              ELSE players[i].cards
                    /\ tradeSellCounts' = tradeSellCounts
                    /\ tradeBuyCounts' = tradeBuyCounts
                    /\ SellCapacity(Cur, listing.sellerId) + 1 =
                          MAX_TRADES_PER_PLAYER - tradeSellCounts'[listing.sellerId]
                            - Len(SelectSeq(tradeListings',
                                            LAMBDA l : l.sellerId = listing.sellerId))]_vars

\* the human has listed a card and cancelled the listing: the card is in the
\* hand again and the human has no open listing
C11_Witness ==
    /\ phase = "trade" /\ last.op = "cancel" /\ humanLists > 0
    /\ \A k \in 1..Len(tradeListings) : tradeListings[k].sellerId # 1
    /\ tradeListings # << >>

OpenListings(id) == Len(SelectSeq(tradeListings, LAMBDA l : l.sellerId = id))

\* C12: in every reachable state each player has bought at most 2 cards in
\* the market of the race, and the cards a player has sold plus that player's
\* open listings are at most 2.
C12_TradeCaps ==
    \A id \in PlayerIds :
        /\ tradeBuyCounts[id] <= MAX_TRADES_PER_PLAYER
        /\ tradeSellCounts[id] + OpenListings(id) <= MAX_TRADES_PER_PLAYER

\* the human has sold one card and has another listed, with cards left in the
\* hand and a third listing made before, and has bought two cards
C12_Witness ==
    /\ phase = "trade" /\ showTradeModal
    /\ tradeSellCounts[1] = 1 /\ OpenListings(1) = 1
    /\ players[1].cards # << >> /\ humanLists = MaxMarketListings
    /\ tradeBuyCounts[1] = MAX_TRADES_PER_PLAYER

\* the AI player has bought two cards and a third listing of the human is open
C12_WitnessAi ==
    /\ phase = "trade" /\ showTradeModal
    /\ tradeBuyCounts[2] = MAX_TRADES_PER_PLAYER
    /\ tradeSellCounts[1] = MAX_TRADES_PER_PLAYER
    /\ players[2].balance >= LISTING_PRICE * Unit

\* the step closes the market
CloseStep == last' # last /\ last'.op = "closeTradeMarket"

\* the cards of the open listings of a seller, in the order of the listings
OpenCardsOf(id) ==
    LET mine == SelectSeq(tradeListings, LAMBDA l : l.sellerId = id)
    IN  [k \in 1..Len(mine) |-> mine[k].card]

\* C13: when the market closes (35 s timer or Start Race) every open listing
\* is returned to the hand of its seller, the listings become empty, the buy
\* and sell counts and all market timers are cleared, no balance changes and
\* the phase becomes Race.
C13_MarketClose ==
    [][CloseStep =>
          /\ phase = "trade" /\ phase' = "race"
          /\ tradeListings' = << >>
          /\ tradeBuyCounts' = NoCounts /\ tradeSellCounts' = NoCounts
          /\ tradeTimeoutRef' = << >> /\ tradeAiTimeoutRef' = << >>
          /\ tradeAiDelayRef' = << >> /\ tradeDelayRef' = << >>
          /\ ~tradeEndsAtRef' /\ ~showTradeModal'
          /\ Len(players') = Len(players)
          /\ \A i \in 1..Len(players) :
                players'[i] =
                    [players[i] EXCEPT !.cards = @ \o OpenCardsOf(players[i].id)]]_vars

\* the 35 s timer has closed the market and the third player has its listed
\* card, the two of diamonds, back at the end of its hand
C13_Witness ==
    /\ phase = "race" /\ last.op = "closeTradeMarket" /\ last.actor = 0
    /\ Len(players[3].cards) >= 2
    /\ players[3].cards[Len(players[3].cards)] = [value |-> 2, suit |-> "D"]

\* Start Race has closed the market after the human listed a card, and the
\* third player has its listed card back at the end of its hand
C13_WitnessStartRace ==
    /\ phase = "race" /\ last.op = "closeTradeMarket" /\ last.actor = 1
    /\ humanLists > 0
    /\ Len(players[3].cards) >= 2
    /\ players[3].cards[Len(players[3].cards)] = [value |-> 2, suit |-> "D"]

\* the players eliminated by the step
EliminatedNow == EliminatedIds(players, players')

\* C14: when a player is eliminated while the market is open, by a human
\* purchase or by an AI purchase tick, all open listings of that player are
\* removed in the same step; they are never bought afterwards and are not
\* returned to any hand when the market closes.
C14_EliminatedListingsRemoved ==
    [][(phase = "trade" /\ session' = session) =>
          /\ \A k \in 1..Len(tradeListings') :
                tradeListings'[k].sellerId \notin EliminatedNow
          /\ PurchaseStep =>
                \A i \in 1..Len(players) :
                   players[i].id = tradeListings[CHOOSE k \in 1..Len(tradeListings) :
                                             tradeListings[k].id = last'.arg].sellerId
                       => ~players[i].eliminated
          /\ CloseStep =>
                \A i \in 1..Len(players) :
                   players[i].eliminated => players'[i].cards = << >>]_vars

\* the step is a roll that charges a penalty or moves a horse short of the
\* finish
ChargingRoll ==
    /\ rolls' = rolls + 1 /\ session' = session
    /\ last'.op \in {"scratchRoll", "raceRoll"} /\ winner' = 0

\* what the roll of the step takes from player i, in dollars: the step
\* penalty per card of a newly scratched horse, or the step penalty of an
\* already scratched horse from the roller
RollCharge(i) ==
    LET horse == horses[HorseIndex(horses, last'.arg)]
    IN  IF last'.actor = 0 THEN 0
        ELSE IF horse.scratched
        THEN IF players[i].id = last'.actor
             THEN scratchPenaltyByStep(horse.scratchStep) ELSE 0
        ELSE IF phase = "scratch"
        THEN scratchPenaltyByStep(Len(scratchHistory) + 1)
                * CountValue(players[i].cards, last'.arg)
        ELSE 0

\* the bailout rule applied to player i, whose balance the step brought to b
BailoutRule(i, b) ==
    LET id == players[i].id
        amount == BailoutAmount(gameMode) * Unit
    IN  IF b > 0
        THEN /\ players'[i].balance = b /\ ~players'[i].eliminated
             /\ (id \in bailoutUsedByPlayer' <=> id \in bailoutUsedByPlayer)
             /\ bailoutCredits'[id] = bailoutCredits[id]
        ELSE IF id \notin bailoutUsedByPlayer /\ b + amount > 0
        THEN /\ players'[i].balance = b + amount /\ ~players'[i].eliminated
             /\ id \in bailoutUsedByPlayer'
             /\ bailoutCredits'[id] = bailoutCredits[id] + 1
        ELSE /\ players'[i].eliminated /\ players'[i].balance = 0
             /\ players'[i].cards = << >>

\* the rule after a roll, and after a purchase of the listing bought by the
\* step
RollBailout ==
    ChargingRoll =>
        \A i \in 1..Len(players) :
            ~players[i].eliminated =>
                BailoutRule(i, players[i].balance - RollCharge(i) * Unit)

PurchaseBailout ==
    PurchaseStep =>
        \A i \in 1..Len(players) :
            ~players[i].eliminated =>
                BailoutRule(i, AfterPayment(i, last'.actor,
                                  tradeListings[CHOOSE k \in 1..Len(tradeListings) :
                                      tradeListings[k].id = last'.arg]).balance)

\* half day: a balance of -15 becomes 85, and a later drop to -5 eliminates
BailoutExample ==
    LET p == [id |-> 2, balance |-> -15 * Unit, cards |-> <<createDeck[1]>>,
              eliminated |-> FALSE]
        first == applyBailoutIfNeeded(<<p>>, "half", {})[1]
        later == applyBailoutIfNeeded(<<[first EXCEPT !.balance = -5 * Unit]>>,
                                      "half", {2})[1]
    IN  /\ first = [p EXCEPT !.balance = 85 * Unit]
        /\ later = [p EXCEPT !.balance = 0, !.cards = << >>, !.eliminated = TRUE]

\* C15: after every balance-changing roll or purchase each non-eliminated
\* player with balance <= 0 who has not used the bailout is credited exactly
\* 100 (half day) or 200 (full day) and marked as bailed out; a player whose
\* balance is still <= 0 after that, or who had already used the bailout,
\* becomes eliminated with balance 0 and no cards.
C15_Bailout == [][RollBailout /\ PurchaseBailout]_vars

\* the same rule for the rolls and the purchases of the human only
C15_RollsAndHumanPurchases ==
    [][/\ BailoutExample
       /\ RollBailout
       /\ last'.op = "buy" => PurchaseBailout]_vars

\* the step is a race roll that advances a live horse
AdvanceStep ==
    /\ rolls' = rolls + 1 /\ session' = session
    /\ last'.op = "raceRoll" /\ last'.actor # 0
    /\ ~horses[HorseIndex(horses, last'.arg)].scratched

\* C16: a horse wins the race exactly on the advance that brings its number
\* of advances to its peg-hole count (2,3,4,5,6,7,6,5,4,3,2 for the values
\* 2..12): value 7 on its 7th advance, values 2 and 12 on their 2nd.
C16_WinAtPegCount ==
    [][AdvanceStep =>
          LET hi == HorseIndex(horses, last'.arg)
          IN  /\ horses'[hi].position = horses[hi].position + 1
              /\ (phase' = "finished" /\ winner' = last'.arg)
                    <=> horses'[hi].position = pegDistribution(last'.arg)]_vars

\* the race ends on the advance that brings the horse one past its peg-hole
\* count
C16_WinOnePastPegCount ==
    [][AdvanceStep =>
          LET hi == HorseIndex(horses, last'.arg)
          IN  /\ horses'[hi].position = horses[hi].position + 1
              /\ (phase' = "finished" /\ winner' = last'.arg)
                    <=> horses'[hi].position = pegDistribution(last'.arg) + 1]_vars

\* C17: when a race is won and a card of the winning value is held, each
\* player is credited pot * (own winning cards) / (total winning cards), a
\* player without a winning card keeps its balance, the credits sum to the
\* pot and the pot becomes 0.
C17_PayoutShares ==
    [][(PayoutStep /\ WinningCards(players, winner') > 0) =>
          LET total == WinningCards(players, winner')
              own(i) == CountValue(players[i].cards, winner')
              credit(i) == players'[i].balance - players[i].balance
          IN  /\ Len(players') = Len(players)
              /\ \A i \in 1..Len(players) :
                    /\ credit(i) * total = pot * own(i)
                    /\ own(i) = 0 => players'[i].balance = players[i].balance
              /\ SumSeq([i \in 1..Len(players) |-> credit(i)]) = pot
              /\ pot' = 0]_vars

\* a race has paid a positive pot to two or more holders with unequal shares,
\* none of the shares a whole number of dollars
C17_Witness ==
    /\ phase = "finished" /\ winner # 0 /\ pot = 0
    /\ summaryDelayRef # << >>
    /\ LET summary == summaryDelayRef[1].summary
       IN  /\ summary.pot > 0 /\ Len(summary.payouts) >= 2
           /\ \E a, b \in 1..Len(summary.payouts) :
                 summary.payouts[a].cards > summary.payouts[b].cards
           /\ \A a \in 1..Len(summary.payouts) :
                 summary.payouts[a].amount % Unit # 0

\* the cases in which buyListing is to be rejected: the listing is the
\* human's own, the human has less than 30, has bought 2 cards in this
\* market, or the seller has sold 2
BuyToBeRejected(listing) ==
    \/ listing.sellerId = 1
    \/ players[1].balance < LISTING_PRICE * Unit
    \/ tradeBuyCounts[1] >= MAX_TRADES_PER_PLAYER
    \/ tradeSellCounts[listing.sellerId] >= MAX_TRADES_PER_PLAYER

\* the cases in which listCard is to be rejected: the phase is not Trade,
\* the human is eliminated, sold plus open listings is 2, or the card is not
\* in the human's hand
ListToBeRejected(card, hand) ==
    \/ phase # "trade"
    \/ players[1].eliminated
    \/ tradeSellCounts[1] + OpenListings(1) >= MAX_TRADES_PER_PLAYER
    \/ card \notin hand

\* C18: a rejected human market action changes nothing, no balance, hand,
\* listing or counter; buyListing is rejected for the human's own listing,
\* with a balance below 30, after 2 purchases, or when the seller has sold
\* 2; listCard is rejected outside Trade, for an eliminated human, when sold
\* plus open listings is 2, or when the card is not in the hand.  The state
\* being the same, every action possible before is possible after.
C18_RejectedChangesNothing ==
    gameStarted =>
        LET s == Cur
            hand == Range(players[1].cards)
        IN  /\ \A k \in 1..Len(tradeListings) :
                  BuyToBeRejected(tradeListings[k]) =>
                      handleBuyListing(s, tradeListings[k].id) = s
            /\ \A card \in AllCards :
                  ListToBeRejected(card, hand) => handleListCardForSale(s, card) = s

\* a market in which the human has bought two cards and has a listing of its
\* own open, another player's listing is open and the human could pay for it
C18_Witness ==
    /\ phase = "trade" /\ showTradeModal
    /\ tradeBuyCounts[1] = MAX_TRADES_PER_PLAYER
    /\ players[1].balance >= LISTING_PRICE * Unit /\ ~players[1].eliminated
    /\ OpenListings(1) > 0
    /\ \E k \in 1..Len(tradeListings) :
          /\ tradeListings[k].sellerId # 1
          /\ tradeSellCounts[tradeListings[k].sellerId] < MAX_TRADES_PER_PLAYER

\* a market in which the human has sold one card, has another listed and has
\* cards in the hand
C18_WitnessListCap ==
    /\ phase = "trade" /\ showTradeModal /\ ~players[1].eliminated
    /\ tradeSellCounts[1] = 1 /\ OpenListings(1) = 1
    /\ players[1].cards # << >>

\* the step resolves a roll
RollStep == rolls' = rolls + 1 /\ session' = session

\* C19: rollDice changes nothing (horses, pot, balances, hands, turn, phase)
\* when the phase is Trade or Finished, when no session is started or when a
\* roll is in flight; a roll is resolved only for the player whose turn it
\* is: for the human only by the human's roll on the human's turn, for an AI
\* player only by its auto-roll timer.
C19_RollGuards ==
    /\ []((phase \in {"trade", "finished"} \/ ~gameStarted \/ isRolling) =>
             \A total \in 2..12 : handleRoll(Cur, total) = Cur)
    /\ [][RollStep =>
             /\ gameStarted /\ phase \in {"scratch", "race"} /\ ~isRolling
             /\ currentPlayerIndex + 1 \in 1..Len(players)
             /\ ~players[currentPlayerIndex + 1].eliminated
             /\ last'.actor = players[currentPlayerIndex + 1].id
             /\ IF last'.actor = 1
                THEN aiRollTimeoutRef = << >> /\ currentPlayerIndex = 0
                     /\ lastRollByUserRef'
                ELSE aiRollTimeoutRef # << >> /\ ~lastRollByUserRef']_vars

\* the roll of an AI player is in flight in the race phase and the turn has
\* passed to the human, whose roll is refused until the lock ends
C19_Witness ==
    /\ phase = "race" /\ isRolling /\ rolls >= 5
    /\ currentPlayerIndex = 0 /\ ~players[1].eliminated
    /\ last.op = "raceRoll" /\ last.actor # 1

\* a market in which the human has less than 30 dollars and another player's
\* listing is open
C18_WitnessFunds ==
    /\ phase = "trade" /\ showTradeModal /\ ~players[1].eliminated
    /\ players[1].balance < LISTING_PRICE * Unit
    /\ tradeBuyCounts[1] < MAX_TRADES_PER_PLAYER
    /\ \E k \in 1..Len(tradeListings) :
          /\ tradeListings[k].sellerId # 1
          /\ tradeSellCounts[tradeListings[k].sellerId] < MAX_TRADES_PER_PLAYER

\* the step deals: a session starts, or the next race of the day begins
DealStep ==
    /\ last' # last
    /\ \/ last'.op = "startGame"
       \/ last'.op \in {"nextRace", "summaryTimeout"} /\ currentRace' = currentRace + 1

\* who is dealt to: every player of a new session, the players not
\* eliminated when the next race begins
DealtTo(i) == IF last'.op = "startGame" THEN TRUE ELSE ~players[i].eliminated

\* the number of players dealt to before player i
DealCursor(i) == Cardinality({j \in 1..(i - 1) : DealtTo(j)})

\* C20: every deal (first race and each next race) hands out all 44 cards to
\* the n non-eliminated players only, the i-th of them receiving the
\* positions i, i+n, i+2n, ... of the shuffled deck; the hand sizes differ by
\* at most one and the eliminated players receive no cards.
C20_Deal ==
    [][DealStep =>
          LET n == Cardinality({i \in 1..Len(players') : DealtTo(i)})
          IN  /\ n > 0
              /\ \E deck \in Shuffles :
                    \A i \in 1..Len(players') :
                       IF DealtTo(i)
                       THEN LET hand == players'[i].cards
                                first == DealCursor(i) + 1
                            IN  /\ Len(hand) = (44 - first) \div n + 1
                                /\ \A j \in 1..Len(hand) :
                                      hand[j] = deck[first + (j - 1) * n]
                       ELSE players'[i].cards = << >> /\ players'[i].eliminated
              /\ Len(Hands') = 44 /\ Range(Hands') = AllCards
              /\ tradeListings' = << >>
              /\ \A i, j \in 1..Len(players') :
                    (DealtTo(i) /\ DealtTo(j)) =>
                        Len(players'[i].cards) - Len(players'[j].cards) \in {-1, 0, 1}]_vars

\* the last race of a half day has been dealt to the two players left, 22
\* cards each, after the human was eliminated in the race before
C20_Witness ==
    /\ phase = "scratch" /\ currentRace = HalfRaces /\ rolls > 0
    /\ last.op \in {"nextRace", "summaryTimeout"}
    /\ players[1].eliminated /\ players[1].cards = << >>
    /\ Len(players[2].cards) = 22 /\ Len(players[3].cards) = 22

\* a session has been dealt to its six players: 8, 8, 7, 7, 7 and 7 cards
C20_WitnessStart ==
    /\ last.op = "startGame"
    /\ [i \in 1..Len(players) |-> Len(players[i].cards)] = <<8, 8, 7, 7, 7, 7>>

\* the players holding exactly n cards
HoldersOf(n) == {i \in 1..Len(players) : Len(players[i].cards) = n}

\* C21 as stated: starting a half-day session deals the 44 cards so that four
\* players get 8 cards and two players get 6 cards.
C21_AsStated ==
    (last.op = "startGame" /\ gameMode = "half") =>
        /\ Cardinality(HoldersOf(8)) = 4
        /\ Cardinality(HoldersOf(6)) = 2

\* C21: starting a session (half day or full day) deals the 44 cards across
\* the 6 players round-robin, so that the first two players get 8 cards and
\* the other four get 7 cards.
C21_DealSizes ==
    last.op = "startGame" =>
        /\ Len(players) = NumPlayers
        /\ HoldersOf(8) = {1, 2}
        /\ HoldersOf(7) = {3, 4, 5, 6}
        /\ SumSeq([i \in 1..Len(players) |-> Len(players[i].cards)]) = 44

\* a half-day session has just been dealt from the deck in its original order
C21_Witness ==
    /\ last.op = "startGame" /\ gameMode = "half" /\ currentRace = 1
    /\ players[1].cards[1] = createDeck[1]
    /\ Len(players[2].cards) = 8 /\ Len(players[6].cards) = 7

\* the properties of a list of final standings computed from the players ps
RankedStandings(st, ps) ==
    /\ Len(st) = Len(ps)
    /\ \A i \in 1..Len(ps) :
          \E k \in 1..Len(st) :
             /\ st[k].playerId = ps[i].id
             /\ st[k].balance = ps[i].balance
             /\ st[k].eliminated = ps[i].eliminated
    /\ \A k \in 1..Len(st), m \in 1..Len(st) :
          k < m => /\ st[k].eliminated => st[m].eliminated
                   /\ st[k].eliminated = st[m].eliminated => st[k].balance >= st[m].balance
    /\ \A k \in 1..Len(st) :
          IF /\ k > 1
             /\ st[k - 1].eliminated = st[k].eliminated
             /\ st[k - 1].balance = st[k].balance
          THEN st[k].rank = st[k - 1].rank
          ELSE st[k].rank = k

\* C22: final standings list every player, all non-eliminated players before
\* all eliminated ones and by descending balance within each group; adjacent
\* players with equal balance and equal elimination status get the same rank,
\* and the first player of each new group of ties gets its 1-based position
\* as rank.  Checked for the standings shown and for the standings of the
\* players of every reachable state.
C22_Standings ==
    /\ finalStandings # << >> => RankedStandings(finalStandings, players)
    /\ players # << >> => RankedStandings(buildFinalStandings(players), players)

\* the standings of a finished day rank four players 1, 2, 2, 4 and the two
\* eliminated players 5, 5
C22_Witness ==
    /\ finalStandings # << >>
    /\ [k \in 1..Len(finalStandings) |-> finalStandings[k].rank] = <<1, 2, 2, 4, 5, 5>>
    /\ [k \in 1..Len(finalStandings) |-> finalStandings[k].eliminated]
          = <<FALSE, FALSE, FALSE, FALSE, TRUE, TRUE>>
    /\ finalStandings[3].balance > finalStandings[4].balance

\* the step finishes the last race of the day
LastRaceFinish == PayoutStep /\ currentRace >= totalRacesOf(gameMode)

\* the step records the human's statistics of the day
RecordStep == ~finalStatsRecordedRef /\ finalStatsRecordedRef'

\* the rank of the human in a list of standings
UserRank(st) == (CHOOSE e \in Range(st) : e.playerId = 1).rank

\* C23: final standings are computed only when the last race of the day
\* finishes, with or without a pot carry-over, and the human's statistics are
\* recorded at that step and at no other step of the day: the win count of
\* the played mode grows by one only if the human is not eliminated and has
\* rank 1, and the statistics of the other mode do not change.
C23_FinalStats ==
    [][/\ (finalStandings' # finalStandings /\ finalStandings' # << >>) => LastRaceFinish
       /\ RecordStep <=> LastRaceFinish
       /\ (finalStatsRecordedRef /\ session' = session) => finalStatsRecordedRef'
       /\ ~LastRaceFinish => playerStats' = playerStats
       /\ LastRaceFinish =>
             LET userWon == ~players'[1].eliminated /\ UserRank(finalStandings') = 1
             IN  /\ finalStandings' = buildFinalStandings(players')
                 /\ playerStats'[gameMode].wins =
                        playerStats[gameMode].wins + (IF userWon THEN 1 ELSE 0)
                 /\ playerStats'[gameMode].bestBalance =
                        Max(playerStats[gameMode].bestBalance, players'[1].balance)
                 /\ \A mode \in DOMAIN playerStats :
                        mode # gameMode => playerStats'[mode] = playerStats[mode]]_vars

\* the day is over and recorded as won: the human shares rank 1 and the
\* half-day win count is 1, the full-day statistics are untouched
C23_Witness ==
    /\ phase = "finished" /\ currentRace = HalfRaces /\ finalStatsRecordedRef
    /\ UserRank(finalStandings) = 1 /\ finalStandings[2].rank = 1
    /\ playerStats["half"].wins = 1
    /\ playerStats["full"] = EMPTY_STATS["full"]

\* the day is over and recorded as not won: the human is ranked behind
C23_WitnessLost ==
    /\ phase = "finished" /\ currentRace = HalfRaces /\ finalStatsRecordedRef
    /\ UserRank(finalStandings) > 1 /\ ~players[1].eliminated
    /\ playerStats["half"].wins = 0 /\ playerStats["half"].bestBalance > 0

\* a race before the last one has finished: no standings, nothing recorded
C23_WitnessEarlier ==
    /\ phase = "finished" /\ currentRace < HalfRaces /\ winner # 0
    /\ finalStandings = << >> /\ ~finalStatsRecordedRef

\* a second day has begun after a recorded day won by the human
C23_WitnessNextDay ==
    /\ session = 2 /\ gameStarted /\ ~finalStatsRecordedRef
    /\ playerStats["half"].wins = 1

\* the last race finished with nobody holding the winner: the pot carried
\* over, the standings are computed and the day is recorded
C23_WitnessCarryover ==
    /\ phase = "finished" /\ currentRace = HalfRaces /\ pot > 0
    /\ finalStandings # << >> /\ finalStatsRecordedRef

\* the elimination flags of the players
Eliminations(ps) == [i \in 1..Len(ps) |-> ps[i].eliminated]

NextRaceStep == DealStep /\ last'.op # "startGame"

\* C25: when a race ends and no player holds a card of the winning horse, the
\* pot carries over: the amount that was in the pot at the finish (left there
\* by the payout step, which pays nothing) is still in the pot when the next
\* race begins.
C25_PotCarriesOver ==
    [][(NextRaceStep /\ WinningCards(players, winner) = 0) => pot' = pot]_vars

\* a race before the last has finished with a pot and no winning card held
C25_CarryoverPending ==
    /\ phase = "finished" /\ winner # 0 /\ currentRace < totalRacesOf(gameMode)
    /\ WinningCards(players, winner) = 0 /\ pot > 0

\* the step is a call of handleNextRace: by the Next Race button or by the
\* auto-advance of the race summary
AdvanceToNextRace ==
    /\ last' # last
    /\ \/ last'.op = "nextRace"
       \/ last'.op = "summaryTimeout" /\ summaryTimeoutRef # << >>
                                      /\ summaryTimeoutRef[1].advance

\* C26: a day has exactly 4 races in half-day mode and 8 in full-day mode:
\* currentRace always lies between 1 and totalRaces, within a day it changes
\* only by handleNextRace and then grows by exactly one, and handleNextRace
\* after the last race changes nothing.
C26_RaceCount ==
    /\ [](gameStarted =>
             /\ totalRacesOf(gameMode) = (IF gameMode = "half" THEN 4 ELSE 8)
             /\ currentRace >= 1 /\ currentRace <= totalRacesOf(gameMode))
    /\ []((gameStarted /\ currentRace >= totalRacesOf(gameMode)) =>
             \A deck \in Shuffles : handleNextRace(Cur, deck) = Cur)
    /\ [][(session' = session /\ currentRace' # currentRace) =>
             AdvanceToNextRace /\ currentRace' = currentRace + 1]_vars
    /\ [][(AdvanceToNextRace /\ currentRace < totalRacesOf(gameMode)) =>
             currentRace' = currentRace + 1]_vars
    /\ [][(AdvanceToNextRace /\ currentRace >= totalRacesOf(gameMode)) =>
             /\ currentRace' = currentRace /\ players' = players
             /\ pot' = pot /\ horses' = horses /\ phase' = phase]_vars

\* race 8 of a full day has finished, after race 7 was played to its end
C26_Witness ==
    /\ gameMode = "full" /\ currentRace = FullRaces /\ phase = "finished"
    /\ winner # 0 /\ rolls > 7

\* race 4 of a half day has finished, after race 3 was played to its end
C26_WitnessHalf ==
    /\ gameMode = "half" /\ currentRace = HalfRaces /\ phase = "finished"
    /\ winner # 0 /\ rolls > 7

\* no roll of the race has been resolved yet
BeforeFirstRoll == gameStarted /\ phase = "scratch" /\ scratchHistory = << >>

\* the seats (from 0) of the players not eliminated, in seat order
ActiveSeats == SelectSeq([i \in 1..Len(players) |-> i - 1],
                         LAMBDA seat : ~players[seat + 1].eliminated)

\* C27: the first roller of race r (r >= 2) is the non-eliminated player at
\* index (r - 1) mod k of the list of non-eliminated players in seat order, k
\* being their number; the first roller of race 1 is the human.  Until the
\* first roll of a race the turn is that player's, and the first roll
\* resolved is that player's roll.
C27_FirstRoller ==
    /\ []((BeforeFirstRoll /\ Len(ActiveSeats) > 0) =>
             /\ currentRace = 1 => currentPlayerIndex = 0 /\ players[1].id = 1
             /\ currentRace >= 2 =>
                   currentPlayerIndex =
                       ActiveSeats[((currentRace - 1) % Len(ActiveSeats)) + 1])
    /\ [][(BeforeFirstRoll /\ RollStep) =>
             /\ last'.actor = players[currentPlayerIndex + 1].id
             /\ ~players[currentPlayerIndex + 1].eliminated
             /\ Len(scratchHistory') = 1]_vars

\* race 4 with the seats 0 and 2 left: the first roll was made by the player
\* at index 3 mod 2 = 1 of that list, player 3
C27_Witness ==
    /\ currentRace = HalfRaces /\ phase = "scratch" /\ Len(scratchHistory) = 1
    /\ players[2].eliminated /\ ActiveSeats = <<0, 2>>
    /\ last.op = "scratchRoll" /\ last.actor = 3

\* it is the turn of the AI player i, who is not eliminated, in a rolling
\* phase of session g
AiTurn(i, g) ==
    /\ gameStarted /\ session = g /\ phase \in {"scratch", "race"}
    /\ currentPlayerIndex + 1 \in 1..Len(players)
    /\ players[currentPlayerIndex + 1].id = i
    /\ ~players[currentPlayerIndex + 1].eliminated

\* the roll resolved last was made by player i in session g
RolledBy(i, g) ==
    /\ session = g /\ last.op \in {"scratchRoll", "raceRoll"} /\ last.actor = i

\* the dice of the run are used up
DiceUsedUp == NextTotals = {}

\* it is the turn of an AI player who is not eliminated, in a rolling phase
AiOnTurn == \E i \in 2..NumPlayers : AiTurn(i, session)

\* the operation resolved last is a roll
JustRolled == last.op \in {"scratchRoll", "raceRoll"}

\* C28: whenever the phase is Scratch or Race and the active player is a
\* non-eliminated AI player, a roll of that player is eventually resolved,
\* provided the roll timers fire and the session is not reset (and the run
\* has dice left): a roll is eventually resolved, the turn stays with that
\* player until a roll is resolved, and a roll resolved on the turn of an AI
\* player is that player's roll.
C28_AiRollsEventually ==
    /\ (AiOnTurn /\ ~JustRolled) ~> (JustRolled \/ DiceUsedUp)
    /\ [][(AiOnTurn /\ ~RollStep) =>
             /\ currentPlayerIndex' = currentPlayerIndex
             /\ AiOnTurn']_vars
    /\ [][(AiOnTurn /\ RollStep) =>
             /\ last'.actor = players[currentPlayerIndex + 1].id
             /\ JustRolled']_vars

\* the same, player by player
C28_EveryAiPlayer ==
    \A i \in 2..NumPlayers :
        (AiTurn(i, session) /\ ~RolledBy(i, session))
            ~> (RolledBy(i, session) \/ DiceUsedUp)

\* an AI player has rolled right after the turn was moved past the human,
\* eliminated by the roll before
C28_Witness ==
    /\ phase = "scratch" /\ Len(scratchHistory) = 2 /\ rolls = 2 /\ JustRolled
    /\ players[1].eliminated /\ last.actor = 2 /\ discarded # {}

\* an AI player has made the first roll after the market closed
C28_WitnessMarket ==
    /\ phase = "race" /\ last.op = "raceRoll" /\ last.actor > 1
    /\ SumSeq([k \in 1..Len(horses) |-> horses[k].position]) = 1

\* an AI player has made the first roll of the next race
C28_WitnessNextRace ==
    /\ currentRace = HalfRaces /\ phase = "scratch" /\ Len(scratchHistory) = 1
    /\ last.op = "scratchRoll" /\ last.actor > 1

\* the step resolves a scratch-phase roll on a horse not scratched yet
NewScratchStep ==
    /\ RollStep /\ phase = "scratch" /\ last'.op = "scratchRoll" /\ last'.actor # 0
    /\ ~horses[HorseIndex(horses, last'.arg)].scratched

\* what such a roll charges player i, in 1/Unit dollars
ScratchCharge(i) ==
    scratchPenaltyByStep(Cardinality(ScratchedHorses) + 1)
        * CountValue(players[i].cards, last'.arg) * Unit

\* what the roll does to the horses and to the pot
ScratchMarks ==
    LET hi == HorseIndex(horses, last'.arg)
    IN  /\ Len(horses') = Len(horses)
        /\ \A k \in 1..Len(horses) :
              /\ horses'[k].position = horses[k].position
              /\ horses'[k].number = horses[k].number
              /\ k # hi => horses'[k] = horses[k]
        /\ horses'[hi].scratched
        /\ horses'[hi].scratchStep = Cardinality(ScratchedHorses) + 1
        /\ scratchHistory' = Append(scratchHistory, last'.arg)
        /\ pot' = pot + SumSeq([i \in 1..Len(players) |-> ScratchCharge(i)])

\* C29 as stated: a scratch-phase roll on a not yet scratched horse marks it
\* scratched with step = (number of horses scratched so far) + 1, charges
\* every player penalty(step) x (number of cards of that value held), adds
\* the sum of those charges to the pot, removes all cards of that value from
\* every hand, and changes no other card and no horse position.
C29_AsStated ==
    [][NewScratchStep =>
          /\ ScratchMarks
          /\ \A i \in 1..Len(players) :
                /\ players'[i].cards = WithoutValue(players[i].cards, last'.arg)
                /\ \/ players'[i].balance = players[i].balance - ScratchCharge(i)
                   \/ BailoutRule(i, players[i].balance - ScratchCharge(i))]_vars

\* C29: the same, except that a player whom the charge eliminates (balance
\* not above 0 after the charge and after a first bailout) ends with balance
\* 0 and an empty hand, and a player bailed out ends with the bailout on top
\* of the charged balance; the hand of every other player loses exactly the
\* cards of that value, and a player eliminated before is not touched.
C29_Scratch ==
    [][NewScratchStep =>
          /\ ScratchMarks
          /\ \A i \in 1..Len(players) :
                IF players[i].eliminated
                THEN players'[i] = players[i]
                ELSE /\ BailoutRule(i, players[i].balance - ScratchCharge(i))
                     /\ players'[i].cards =
                            IF players'[i].eliminated THEN << >>
                            ELSE WithoutValue(players[i].cards, last'.arg)]_vars

\* every roll of the session so far has scratched a new horse, the pot holds
\* the charges, and one of the rolls has eliminated a holder, whose cards of
\* other values are gone as well
C29_Witness ==
    /\ phase = "scratch" /\ last.op = "scratchRoll"
    /\ rolls = Len(scratchHistory) /\ rolls > 0
    /\ pot > 0 /\ forfeited # {}
    /\ \E c \in discarded : c.value \notin Range(scratchHistory)
    /\ \E i \in 1..3 : players[i].eliminated

\* the step resolves a roll, in the scratch or the race phase, on a horse
\* that is scratched already
PenaltyStep ==
    /\ RollStep /\ last'.op \in {"scratchRoll", "raceRoll"} /\ last'.actor # 0
    /\ horses[HorseIndex(horses, last'.arg)].scratched

\* the penalty of the scratched horse rolled, in 1/Unit dollars
StepPenalty ==
    scratchPenaltyByStep(horses[HorseIndex(horses, last'.arg)].scratchStep) * Unit

\* what such a roll leaves alone, and what it adds to the pot
PenaltyFrame ==
    /\ StepPenalty \in {5 * Unit, 10 * Unit, 15 * Unit, 20 * Unit}
    /\ pot' = pot + StepPenalty
    /\ horses' = horses /\ scratchHistory' = scratchHistory
    /\ phase' = phase
    /\ \A i \in 1..Len(players) :
          players[i].id # last'.actor => players'[i] = players[i]

C30_WitnessScratch ==
    /\ phase = "scratch" /\ last.op = "scratchRoll" /\ last.actor # 0
    /\ Len(scratchHistory) < rolls /\ last.arg \in Range(scratchHistory)
    /\ \E i \in 1..Len(players) :
          players[i].id = last.actor /\ players[i].eliminated

\* the horses standing at their finish threshold
AtThreshold == {k \in 1..Len(horses) : horses[k].position >= maxSpaces(horses[k].number)}

\* the step is the advance that brings the rolled horse to its threshold
WinningRoll ==
    /\ AdvanceStep
    /\ horses[HorseIndex(horses, last'.arg)].position + 1 = maxSpaces(last'.arg)

\* C31: a race-phase roll on a live horse raises only that horse's position,
\* by exactly 1 and never above its finish threshold; the phase is Finished
\* if and only if exactly one horse is at its threshold, and that horse is
\* the recorded winner; the payout for it (the race summary with the winner,
\* the pot paid and the final standings of the last race) is made in the
\* step of the winning roll and in no other step, and no roll is resolved
\* once the race is finished, so that a race pays out once.
C31_RaceAdvance ==
    /\ [](/\ \A k \in 1..Len(horses) :
                horses[k].position \in 0..maxSpaces(horses[k].number)
          /\ Cardinality(AtThreshold) <= 1
          /\ phase = "finished" <=> Cardinality(AtThreshold) = 1
          /\ phase = "finished" =>
                \A k \in AtThreshold : winner = horses[k].number)
    /\ [][AdvanceStep =>
             LET hi == HorseIndex(horses, last'.arg)
             IN  /\ phase = "race"
                 /\ horses' = [horses EXCEPT ![hi].position = @ + 1]]_vars
    /\ [][(WinningRoll \/ PayoutStep \/ summaryDelayRef' \notin {<< >>, summaryDelayRef}) =>
             /\ WinningRoll /\ PayoutStep
             /\ winner' = last'.arg
             /\ summaryDelayRef' # << >>
             /\ summaryDelayRef'[1].summary.winner = last'.arg
             /\ summaryDelayRef'[1].summary.pot = pot
             /\ currentPlayerIndex' = currentPlayerIndex]_vars
    /\ [][phase = "finished" => ~RollStep]_vars

\* a horse has come to its threshold by advances of several players and the
\* race is finished with that horse as the winner and its payout made
C31_Witness ==
    /\ phase = "finished" /\ last.op = "raceRoll"
    /\ \E k \in AtThreshold :
          /\ winner = horses[k].number
          /\ horses[k].position = pegDistribution(horses[k].number) + 1
    /\ summaryDelayRef # << >> /\ summaryDelayRef[1].summary.winner = winner
    /\ \E k \in 1..Len(horses) : k \notin AtThreshold /\ horses[k].position > 0

\* the seat (from 0) of the first non-eliminated player after seat `from` in
\* cyclic order among ps; `from` itself comes last
NextInOrder(ps, from) ==
    LET n == Len(ps)
        seat(o) == (from + o) % n
        live == {o \in 1..n : ~ps[seat(o) + 1].eliminated}
    IN  seat(CHOOSE o \in live : \A p \in live : o <= p)

\* the players this step eliminates
OutByStep == {i \in 1..Len(players) : ~players[i].eliminated /\ players'[i].eliminated}

\* C32: after every scratch-phase roll and every non-winning race-phase
\* roll the turn is with the first player after the roller, in cyclic seat
\* order, who is not eliminated once the roll is resolved, also when the
\* roll eliminated the roller or the player next in order; after the winning
\* roll the turn does not move.
C32_TurnOrder ==
    [][RollStep =>
          IF WinningRoll
          THEN currentPlayerIndex' = currentPlayerIndex
          ELSE currentPlayerIndex' = NextInOrder(players', currentPlayerIndex)]_vars

\* a roll has eliminated the player next in order and the turn has passed
\* that player by
C32_Witness ==
    /\ last.op \in {"scratchRoll", "raceRoll"} /\ isRolling
    /\ \E i \in 1..Len(players) :
          /\ players[i].id = last.actor /\ ~players[i].eliminated
          /\ players[(i % Len(players)) + 1].eliminated
          /\ players[(i % Len(players)) + 1].id \notin {4, 5, 6}
          /\ currentPlayerIndex = ((i + 1) % Len(players))
          /\ ~players[currentPlayerIndex + 1].eliminated

\* a roll has eliminated the roller and the turn has passed on
C32_WitnessRoller ==
    /\ last.op \in {"scratchRoll", "raceRoll"} /\ isRolling
    /\ \E i \in 1..Len(players) :
          /\ players[i].id = last.actor /\ players[i].eliminated
          /\ currentPlayerIndex # i - 1
          /\ ~players[currentPlayerIndex + 1].eliminated

\* the roll that scratched the fourth horse has passed the turn on
C32_WitnessFourth ==
    /\ phase = "trade" /\ last.op = "scratchRoll" /\ Len(scratchHistory) = 4
    /\ players[currentPlayerIndex + 1].id # last.actor

\* the step is the opening of the market by its delay timer
OpenStep == tradeDelayRef # << >> /\ last'.op = "openTradeMarket" /\ last' # last

\* the cards of the listings of the player with this id among ls
ListedBy(ls, id) == {ls[k].card : k \in {j \in 1..Len(ls) : ls[j].sellerId = id}}
ListingsOf(ls, id) == Len(SelectSeq(ls, LAMBDA l : l.sellerId = id))

\* C33: when the market opens, each non-eliminated AI player holding more
\* than one card lists 1 or 2 of its own cards (which leave its hand) and
\* keeps at least one card in hand; the human, eliminated players and AI
\* players with at most one card list nothing and keep their hands; the
\* listings are the only ones open and the buy and sell counters are zero.
C33_MarketOpen ==
    [][OpenStep =>
          /\ phase' = "trade"
          /\ tradeBuyCounts' = NoCounts /\ tradeSellCounts' = NoCounts
          /\ Len(players') = Len(players)
          /\ \A k \in 1..Len(tradeListings') :
                \E i \in 1..Len(players) : players[i].id = tradeListings'[k].sellerId
          /\ \A i \in 1..Len(players) :
                LET id == players[i].id
                    n == ListingsOf(tradeListings', id)
                IN  /\ players'[i].balance = players[i].balance
                    /\ players'[i].eliminated = players[i].eliminated
                    /\ IF /\ id # 1 /\ ~players[i].eliminated
                          /\ Len(players[i].cards) > 1
                       THEN /\ n \in {1, 2}
                            /\ Len(players'[i].cards) >= 1
                            /\ Len(players'[i].cards) = Len(players[i].cards) - n
                            /\ Cardinality(ListedBy(tradeListings', id)) = n
                            /\ ListedBy(tradeListings', id) \cap Range(players'[i].cards) = {}
                            /\ ListedBy(tradeListings', id) \cup Range(players'[i].cards)
                                  = Range(players[i].cards)
                       ELSE /\ n = 0
                            /\ players'[i].cards = players[i].cards]_vars

\* a market has opened among six players: an AI player with one card and
\* the human list nothing, an AI player with two cards lists one and keeps
\* one, another lists two
C33_Witness ==
    /\ last.op = "openTradeMarket" /\ phase = "trade"
    /\ ListingsOf(tradeListings, 1) = 0
    /\ \E i, j, k \in 1..Len(players) :
          /\ players[i].id # 1 /\ ~players[i].eliminated
          /\ Len(players[i].cards) = 1 /\ ListingsOf(tradeListings, players[i].id) = 0
          /\ Len(players[j].cards) = 1 /\ ListingsOf(tradeListings, players[j].id) = 1
          /\ ListingsOf(tradeListings, players[k].id) = 2

\* a market has opened with an eliminated AI player, who lists nothing
C33_WitnessEliminated ==
    /\ last.op = "openTradeMarket" /\ phase = "trade" /\ tradeListings # << >>
    /\ \E i \in 1..Len(players) :
          /\ players[i].eliminated /\ players[i].id # 1
          /\ ListingsOf(tradeListings, players[i].id) = 0

\* the step is the callback of an AI purchase tick
AiTickStep == tradeAiTimeoutRef # << >> /\ last' # last /\ last'.op \in {"aiBuy", "aiPass"}

\* the sum of the counts of a counter map
CountSum(counts) == SumSeq([id \in PlayerIds |-> counts[id]])

\* the player with this id, and the listing with this id
SeatOf(id) == CHOOSE i \in 1..Len(players) : players[i].id = id
ListingAt(listingId) == CHOOSE k \in 1..Len(tradeListings) : tradeListings[k].id = listingId

\* C34: each AI purchase tick performs at most one purchase; the buyer is a
\* non-eliminated AI player with a balance of at least 30 and fewer than 2
\* purchases in this market, and the bought listing is open, is not the
\* buyer's own, not one of an eliminated seller and not one of a seller who
\* has sold 2; a tick that does not buy changes no balance, hand, listing or
\* counter; a tick runs only while the market is open, and once the market
\* has closed no tick is pending.
C34_AiPurchaseTick ==
    /\ [](phase # "trade" => tradeAiTimeoutRef = << >> /\ tradeAiDelayRef = << >>)
    /\ [][AiTickStep =>
             /\ phase = "trade" /\ phase' = "trade"
             /\ IF last'.op = "aiPass"
                THEN /\ players' = players /\ tradeListings' = tradeListings
                     /\ tradeBuyCounts' = tradeBuyCounts
                     /\ tradeSellCounts' = tradeSellCounts /\ pot' = pot
                ELSE /\ tradeEndsAtRef
                     /\ Len(tradeListings') = Len(tradeListings) - 1
                     /\ CountSum(tradeBuyCounts') = CountSum(tradeBuyCounts) + 1
                     /\ CountSum(tradeSellCounts') = CountSum(tradeSellCounts) + 1
                     /\ \E i \in 1..Len(players) : players[i].id = last'.actor
                     /\ \E k \in 1..Len(tradeListings) : tradeListings[k].id = last'.arg
                     /\ LET buyer == players[SeatOf(last'.actor)]
                            listing == tradeListings[ListingAt(last'.arg)]
                            seller == players[SeatOf(listing.sellerId)]
                        IN  /\ buyer.id # 1 /\ ~buyer.eliminated
                            /\ buyer.balance >= LISTING_PRICE * Unit
                            /\ tradeBuyCounts[buyer.id] < MAX_TRADES_PER_PLAYER
                            /\ tradeBuyCounts'[buyer.id] = tradeBuyCounts[buyer.id] + 1
                            /\ listing.sellerId # buyer.id
                            /\ ~seller.eliminated
                            /\ tradeSellCounts[seller.id] < MAX_TRADES_PER_PLAYER
                            /\ \A k \in 1..Len(tradeListings') :
                                  tradeListings'[k].id # listing.id]_vars

\* an AI player has bought its second card of this market, from a seller
\* whose other listing is still open
C34_Witness ==
    /\ last.op = "aiBuy" /\ phase = "trade"
    /\ tradeBuyCounts[last.actor] = MAX_TRADES_PER_PLAYER
    /\ tradeListings # << >>

\* ticks have gone by while the listing of an eliminated seller and a buyer
\* with 30 or more were there, and the listing is still open
C34_WitnessEliminatedSeller ==
    /\ last.op = "aiPass" /\ phase = "trade"
    /\ \E k \in 1..Len(tradeListings) : \E i, j \in 1..Len(players) :
          /\ players[i].id = tradeListings[k].sellerId /\ players[i].eliminated
          /\ players[j].id \notin {1, tradeListings[k].sellerId}
          /\ ~players[j].eliminated /\ players[j].balance >= LISTING_PRICE * Unit
          /\ tradeBuyCounts[players[j].id] < MAX_TRADES_PER_PLAYER

\* the values of the horses scratched in this race
ScratchedValues == {horses[k].number : k \in ScratchedHorses}

\* the values of the cards in hands and in open listings
ValuesInPlay ==
    {c.value : c \in HandCards(players) \cup ListedCards(tradeListings)}

\* C35: from the roll that scratches a horse until the end of that race, no
\* hand and no listing holds a card of that horse's value; during Trade and
\* Race no card of a scratched horse exists.
C35_NoScratchedCards == ScratchedValues \cap ValuesInPlay = {}

\* the market is open with listings, four horses are scratched and cards of
\* each of them were forfeited by hands in this race
C35_Witness ==
    /\ phase = "trade" /\ tradeListings # << >>
    /\ Cardinality(ScratchedValues) = 4
    /\ \A v \in ScratchedValues : \E c \in forfeited : c.value = v
    /\ \E v \in ScratchedValues : Cardinality({c \in forfeited : c.value = v}) = 4

\* the race is on after a market in which a card changed hands
C35_WitnessRace ==
    /\ phase = "race" /\ Cardinality(ScratchedValues) = 4
    /\ forfeited # {} /\ rolls > 4
    /\ \E i \in 1..Len(players) : Len(players[i].cards) > 0

ListingIds(ls) == {ls[k].id : k \in 1..Len(ls)}

\* the number of hands of ps that hold the card, each hand counted as often
\* as it holds it
HandsHolding(ps, card) ==
    SumSeq([i \in 1..Len(ps) |-> Len(SelectSeq(ps[i].cards, LAMBDA c : c = card))])

\* the card is in the hand of the player with this id and nowhere else
OnlyInHandOf(ps, id, card) ==
    /\ HandsHolding(ps, card) = 1
    /\ \E i \in 1..Len(ps) : ps[i].id = id /\ card \in Range(ps[i].cards)

\* the players a market step acts on: the buyer and the seller of a
\* purchase, the seller of a listing made or cancelled
Parties ==
    IF last' = last THEN {}
    ELSE IF last'.op \in {"buy", "aiBuy"}
    THEN {last'.actor} \cup {l.sellerId : l \in {m \in Range(tradeListings) : m.id = last'.arg}}
    ELSE IF last'.op \in {"list", "cancel"} THEN {last'.actor}
    ELSE {}

\* C36: under any order of the human's market actions (list, cancel, buy,
\* start race), the AI purchase ticks and the market-close timer, an open
\* listing leaves the market in one step and in one way: bought (its card
\* goes to the one buyer, or is dropped with the hand of a buyer the purchase
\* eliminates), cancelled or returned at the close (its card goes back to its
\* seller), or discarded with its seller's elimination; its id is never used
\* again, so that no listing is both bought and returned.  Every action
\* works on the latest state (the snapshot the ticks read is the state of
\* the last render), and while the market is open no step undoes another's
\* update: the counters only grow and a step changes no player other than
\* its buyer and its seller.
C36_ListingsResolvedOnce ==
    /\ [](/\ Cardinality(ListingIds(tradeListings)) = Len(tradeListings)
          /\ \A id \in ListingIds(tradeListings) : id <= listingCounterRef
          /\ \A l \in Range(tradeListings) : HandsHolding(players, l.card) = 0
          /\ (phase = "trade" /\ tradeEndsAtRef) =>
                tradeStateRef = [players |-> players, listings |-> tradeListings,
                                 buyCounts |-> tradeBuyCounts,
                                 sellCounts |-> tradeSellCounts])
    /\ [][session' = session =>
             /\ \A id \in ListingIds(tradeListings') \ ListingIds(tradeListings) :
                   id > listingCounterRef
             /\ \A l \in Range(tradeListings) :
                   l.id \notin ListingIds(tradeListings') =>
                      \/ /\ PurchaseStep /\ last'.arg = l.id
                         /\ \/ OnlyInHandOf(players', last'.actor, l.card)
                            \/ /\ last'.actor \in EliminatedNow
                               /\ HandsHolding(players', l.card) = 0
                               /\ l.card \in discarded'
                      \/ /\ CancelStep /\ last'.arg = l.id
                         /\ OnlyInHandOf(players', l.sellerId, l.card)
                      \/ /\ CloseStep
                         /\ OnlyInHandOf(players', l.sellerId, l.card)
                      \/ /\ l.sellerId \in EliminatedNow
                         /\ ~(PurchaseStep /\ last'.arg = l.id)
                         /\ HandsHolding(players', l.card) = 0
                         /\ l.card \in discarded'
             /\ (phase = "trade" /\ phase' = "trade" /\ tradeEndsAtRef) =>
                   /\ \A id \in PlayerIds :
                         /\ tradeBuyCounts'[id] >= tradeBuyCounts[id]
                         /\ tradeSellCounts'[id] >= tradeSellCounts[id]
                   /\ \A i \in 1..Len(players) :
                         players[i].id \notin Parties => players'[i] = players[i]]_vars

\* the human and an AI player have each bought a listing of the other, the
\* human has cancelled another listing, and a listing is still open for the
\* close to return
C36_Witness ==
    /\ phase = "trade" /\ last.op = "cancel"
    /\ tradeBuyCounts[1] >= 1 /\ tradeSellCounts[1] >= 1
    /\ \E id \in PlayerIds \ {1} : tradeBuyCounts[id] >= 1 /\ tradeSellCounts[id] >= 1
    /\ tradeListings # << >>

\* C37: after every completed operation (roll, purchase, market close,
\* payout, next race) every non-eliminated player has a strictly positive
\* balance; a balance of 0 or less is seen only inside a step, before the
\* bailout or the elimination.
C37_PositiveBalances ==
    \A i \in 1..Len(players) : ~players[i].eliminated => players[i].balance > 0

\* a roll has charged a player more than its balance and the bailout has
\* lifted that player back above 0; another player is eliminated
C37_Witness ==
    /\ last.op \in {"scratchRoll", "raceRoll"}
    /\ \E i, j \in 1..Len(players) :
          /\ ~players[i].eliminated /\ bailoutCredits[players[i].id] >= 1
          /\ players[i].balance \in 1..(BailoutAmount(gameMode) * Unit - 1)
          /\ players[j].eliminated /\ players[j].id \in {1, 2, 3}

\* a purchase has taken the buyer's last 30 dollars
C37_WitnessPurchase ==
    /\ last.op \in {"buy", "aiBuy"}
    /\ \E i \in 1..Len(players) :
          /\ players[i].id = last.actor
          /\ \/ players[i].eliminated
             \/ players[i].balance = BailoutAmount(gameMode) * Unit

\* C38: a scratched horse always has position 0; during Trade, Race and
\* Finished exactly 4 horses are scratched; the recorded winner of a race is
\* a horse of that race that is not scratched.
C38_ScratchedHorses ==
    /\ \A k \in ScratchedHorses : horses[k].position = 0
    /\ phase \in {"trade", "race", "finished"} => Cardinality(ScratchedHorses) = 4
    /\ winner # 0 =>
          /\ HorseIndex(horses, winner) # 0
          /\ ~horses[HorseIndex(horses, winner)].scratched
    /\ phase = "finished" => winner # 0

\* a race is finished: its winner is one of the seven live horses and stands
\* at its threshold, and the four scratched horses stand at 0
C38_Witness ==
    /\ phase = "finished" /\ winner # 0 /\ Cardinality(ScratchedHorses) = 4
    /\ ~horses[HorseIndex(horses, winner)].scratched
    /\ horses[HorseIndex(horses, winner)].position = maxSpaces(winner)
    /\ Len(scratchHistory) = 4

\* a roll of the race has hit a scratched horse, which stays at 0
C38_WitnessHit ==
    /\ phase = "race" /\ last.op = "raceRoll" /\ isRolling
    /\ HorseIndex(horses, last.arg) \in ScratchedHorses
    /\ horses[HorseIndex(horses, last.arg)].position = 0
    /\ Cardinality(ScratchedHorses) = 4

\* all the money of the game: the balances and the pot
Money(ps, p) == SumSeq([i \in 1..Len(ps) |-> ps[i].balance]) + p

\* the money the bailout check adds in this step: a credit for each bailout
\* given, and the debt written off for each player it eliminates
BailoutCredit ==
    SumSeq([id \in PlayerIds |-> (bailoutCredits'[id] - bailoutCredits[id])])
        * BailoutAmount(gameMode) * Unit

\* C39 as stated: the sum of all balances plus the pot is unchanged by every
\* roll penalty, every market purchase (by the human or an AI player, from
\* any seller) and every payout; it changes only by a bailout credit, by an
\* elimination that sets a negative balance to 0, and by the pot reset at
\* the start of a race.
C39_MoneyConserved ==
    [][(session' = session /\ Money(players', pot') # Money(players, pot)) =>
          \/ BailoutCredit > 0
          \/ EliminatedNow # {} /\ Money(players', pot') > Money(players, pot)
          \/ NextRaceStep /\ Money(players', pot') = Money(players, pot) - pot]_vars

\* the step takes money from a player who was already eliminated: the 30
\* paid to an eliminated seller, or a balance an eliminated player was paid
\* before
TakenFromEliminated ==
    \/ /\ PurchaseStep
       /\ \E l \in Range(tradeListings) : \E i \in 1..Len(players) :
             /\ l.id = last'.arg /\ players[i].id = l.sellerId
             /\ players[i].eliminated
    \/ \E i \in 1..Len(players) :
          players[i].eliminated /\ players[i].balance > 0 /\ players'[i].balance = 0

\* the same, with the steps that take money from an already eliminated
\* player set aside
C39_ExceptEliminatedPayees ==
    [][(/\ session' = session /\ Money(players', pot') # Money(players, pot)
        /\ ~TakenFromEliminated) =>
          \/ BailoutCredit > 0
          \/ EliminatedNow # {} /\ Money(players', pot') > Money(players, pot)
          \/ NextRaceStep /\ Money(players', pot') = Money(players, pot) - pot]_vars

\* the player whose turn it is, is not eliminated and can roll: the human by
\* the dice button, an AI player by its pending auto-roll timer
RollEnabled ==
    /\ currentPlayerIndex + 1 \in 1..Len(players)
    /\ ~players[currentPlayerIndex + 1].eliminated
    /\ \/ canRoll(Cur)
       \/ players[currentPlayerIndex + 1].id # 1 /\ aiRollTimeoutRef # << >>

\* the roll lock of the last roll is on and the timer that ends it is pending
RollLockPending == isRolling /\ rollTimeoutRef # << >>

\* C40: the session never gets stuck in the Scratch or Race phase: in every
\* reachable state with one of these phases there is a non-eliminated
\* player on turn for whom a roll is enabled (the human's manual roll or an
\* AI auto-roll), at the latest when the roll lock of the roll in flight
\* ends.
C40_NeverStuck ==
    phase \in {"scratch", "race"} =>
       /\ currentPlayerIndex + 1 \in 1..Len(players)
       /\ ~players[currentPlayerIndex + 1].eliminated
       /\ RollEnabled \/ RollLockPending

\* a roll has eliminated the last players still in: the phase is Scratch or
\* Race, nobody is left to roll and no timer is pending
C40_AllEliminated ==
    /\ phase \in {"scratch", "race"}
    /\ \A i \in 1..Len(players) : players[i].eliminated
    /\ ~isRolling /\ rollTimeoutRef = << >> /\ aiRollTimeoutRef = << >>
    /\ ~canRoll(Cur)

\* the same while a player is still in the game
C40_NotStuckWhilePlayersLeft ==
    (/\ phase \in {"scratch", "race"}
     /\ \E i \in 1..Len(players) : ~players[i].eliminated) =>
       /\ currentPlayerIndex + 1 \in 1..Len(players)
       /\ ~players[currentPlayerIndex + 1].eliminated
       /\ RollEnabled \/ RollLockPending

====
